---------------------------- MODULE Spec2Model ----------------------------
(***************************************************************************)
(* A model of the AI_toolbox scripts.                                      *)
(*                                                                         *)
(*   - summarize_book.py: parse_sections (the recursive outline parser),   *)
(*     make_outline and merge_outlines.  Text is a sequence of one-        *)
(*     character strings; the regular expressions are computed character   *)
(*     by character.                                                       *)
(*   - litreview.py: the frontier loop of the __main__ block.              *)
(*                                                                         *)
(* Positions are Python's: 0-based, so the character at position p of a    *)
(* text t is t[p + 1].                                                     *)
(***************************************************************************)
EXTENDS Integers, Sequences, FiniteSets, TLC

VARIABLES
    \* ---- summarize_book.py
    pieces,     \* how the input text was put together (indices into Piece)
    res,        \* the LLM response / the argument of parse_sections
    sections,   \* the list parse_sections returned
    out,        \* the record make_outline / merge_outlines returned
    ppc,        \* "input" | "parsed" | "outlined" | "scan" | "done"
    \* ---- parse_sections, statement by statement
    stext,      \* the normalised text (line 78)
    frames,     \* the active calls of parse_section, outermost first
    pos,        \* pos of the top-level loop (line 116)
    roots,      \* sections of the top-level loop (line 115)
    \* ---- litreview.py, the __main__ block
    fpc,            \* "loop" | "search" | "title" | "abstract" | "end"
    token,          \* whether ADS_API_TOKEN is set in the environment
    queries,        \* the work queue (a list of queries)
    query,          \* the query popped by the current iteration
    query_stats,    \* query -> its outcome entry
    all_papers,     \* the bibcodes that are keys of all_papers
    candidates,     \* the candidates of the current iteration
    retrieved,      \* the candidates as search_ads returned them (line 339),
                    \* kept until the title scores are in
    title_relevances,  \* what get_title_relevance returned in this iteration
    abstract_relevances,  \* what get_abstract_relevance returned in this iteration
    disk,           \* the file args.output
    searched,       \* query -> calls of search_ads for it in this run
    calls,          \* the external calls made by the current iteration
    log,            \* the last message logged (before the exception text, if any)
    iterations,     \* the iterations of the loop started so far, over all runs
    \* ---- litreview.py, the relevance assessment
    rpc,            \* "idle" | "label" | "scored" | "batches" | "assessed"
    label,          \* a feedback label, as a sequence of characters
    score,          \* the score the label table gave it
    sent,           \* the papers handed to get_title_relevance
    batch_size,     \* its batch_size argument
    responses,      \* what the LLM answered for each batch
    feedbacks,      \* what get_title_relevance returned, or that it raised
    \* ---- make_tldr.py, the __main__ block
    tldr_pc,        \* "idle" | "loop" | "done" | the exception that ended the script
    tldr_papers,    \* paper_data['papers']: bibcode -> its 'tldr', "" when it has none
    tldr_batches,   \* batches
    tldr_responses, \* what the LLM answers for each batch
    tldr_done,      \* the batches the loop is past
    tldr_file,      \* the papers of args.filename, as last written
    \* ---- summarize_book.py, step 'tldr' of the __main__ block
    book_pc,        \* "idle" | "loop" | "done"
    book_batches,   \* len(batches)
    book_i,         \* the index i of the batch at hand, within batches[50:]
    book_tldrs,     \* tldrs
    book_output,    \* the file args.output
    book_runs,      \* how many times the script was started
    \* ---- add_event_apple_calendar.py, the __main__ block
    cal_pc,         \* "idle" | "parse" | "confirm" | "write" | "execute" |
                    \* "cleanup" | "done" | "exit" | "ValueError"
    cal_response,   \* what make_applescript returned, token by token
    cal_script,     \* script, after parse_applescript
    cal_asked,      \* whether the confirmation prompt was shown
    cal_proceed,    \* proceed: the answer typed, character by character
    cal_file,       \* the temporary file: "absent" | "written" | "removed"
    cal_runs,       \* how many times osascript was run
    \* ---- litreview.py, LM.clear_history
    lm_pc,          \* "idle" | "chat" | "raised" | "cleared"
    lm_messages,    \* self.messages
    lm_before,      \* self.messages before the last call of clear_history
    lm_n,           \* the argument n of the last call of clear_history
    lm_add,         \* the argument add_to_history of the last call of get_response
    \* ---- download_pdf.py
    dl_pc,          \* "idle" | "loop" | "stream" | "returned" | "done"
    dl_todo,        \* the bibcodes the loop of line 50 has still to visit
    dl_bibcode,     \* the bibcode of the call of download_pdf at hand
    dl_files,       \* pdf_dir: file name -> whether it exists, chunks it holds
    dl_result,      \* what the last call of download_pdf returned, or that it raised
    dl_pdf,         \* papers[bibcode]['pdf'], "" when the key is missing
    dl_saved,       \* the same, in the file args.filename
    dl_runs         \* how many times the script was started

parserVars == <<pieces, res, sections, out, ppc, stext, frames, pos, roots>>

frontierVars == <<fpc, token, queries, query, query_stats, all_papers, candidates, retrieved,
                  title_relevances, abstract_relevances, disk, searched, calls,
                  log, iterations>>

relevanceVars == <<rpc, label, score, sent, batch_size, responses, feedbacks>>

tldrVars == <<tldr_pc, tldr_papers, tldr_batches, tldr_responses, tldr_done,
              tldr_file>>

bookVars == <<book_pc, book_batches, book_i, book_tldrs, book_output, book_runs>>

calVars == <<cal_pc, cal_response, cal_script, cal_asked, cal_proceed, cal_file,
             cal_runs>>

lmVars == <<lm_pc, lm_messages, lm_before, lm_n, lm_add>>

dlVars == <<dl_pc, dl_todo, dl_bibcode, dl_files, dl_result, dl_pdf, dl_saved,
            dl_runs>>

toolVars == <<relevanceVars, tldrVars, bookVars, calVars, lmVars, dlVars>>

\* what each of these leaves alone
relevanceFrame ==
    <<parserVars, frontierVars, tldrVars, bookVars, calVars, lmVars, dlVars>>

tldrFrame ==
    <<parserVars, frontierVars, relevanceVars, bookVars, calVars, lmVars, dlVars>>

bookFrame ==
    <<parserVars, frontierVars, relevanceVars, tldrVars, calVars, lmVars, dlVars>>

calFrame ==
    <<parserVars, frontierVars, relevanceVars, tldrVars, bookVars, lmVars, dlVars>>

lmFrame ==
    <<parserVars, frontierVars, relevanceVars, tldrVars, bookVars, calVars, dlVars>>

dlFrame ==
    <<parserVars, frontierVars, relevanceVars, tldrVars, bookVars, calVars, lmVars>>

vars == <<pieces, res, sections, out, ppc, stext, frames, pos, roots,
          fpc, token, queries, query, query_stats, all_papers, candidates,
          retrieved,
          title_relevances, abstract_relevances, disk, searched, calls,
          log, iterations,
          rpc, label, score, sent, batch_size, responses, feedbacks,
          tldr_pc, tldr_papers, tldr_batches, tldr_responses, tldr_done,
          tldr_file,
          book_pc, book_batches, book_i, book_tldrs, book_output, book_runs,
          cal_pc, cal_response, cal_script, cal_asked, cal_proceed, cal_file,
          cal_runs,
          lm_pc, lm_messages, lm_before, lm_n, lm_add,
          dl_pc, dl_todo, dl_bibcode, dl_files, dl_result, dl_pdf, dl_saved,
          dl_runs>>

-----------------------------------------------------------------------------
(***************************************************************************)
(* Bounds of the model.                                                    *)
(***************************************************************************)
\* longest input, in pieces, handed to parse_sections as a whole
MaxPieces == 4
\* longest input made of whole tags and text only
MaxTagPieces == 6
\* longest input, in pieces, followed statement by statement
MaxScanPieces == 3
\* the longest list of queries get_query_suggestions returns
MaxSuggested == 2
\* how many iterations of the frontier loop are followed, over all runs
MaxIterations == 2
\* the most batches of text past the first 50
MaxBookBatches == 2
\* the most summaries make_tldr returns for one batch of text
MaxSummaries == 2
\* how many times summarize_book.py is started
MaxBookRuns == 2
\* how many leading letters of a label take either case independently
MaxCased == 5
\* the most <paper> entries in one LLM response
MaxEntries == 2

-----------------------------------------------------------------------------
(***************************************************************************)
(* Characters and the literals of summarize_book.py.                       *)
(***************************************************************************)
\* what \s matches and str.strip() strips, among the characters used here
Whitespace == {" ", "\n", "\t"}

Quote == "\""

\* '<section' of the pattern of line 83
LitSection == <<"<", "s", "e", "c", "t", "i", "o", "n">>
\* 'id="' of the pattern of line 83
LitId == <<"i", "d", "=", "\"">>
\* 'title="' of the pattern of line 83
LitTitle == <<"t", "i", "t", "l", "e", "=", "\"">>
\* '</section>' of line 101
LitClose == <<"<", "/", "s", "e", "c", "t", "i", "o", "n", ">">>
\* the 10 of 'pos + 10', line 102
CloseLen == 10

Min(a, b) == IF a < b THEN a ELSE b

\* text.startswith(lit, p)
StartsWith(t, lit, p) ==
    /\ p + Len(lit) <= Len(t)
    /\ \A k \in 1..Len(lit) : t[p + k] = lit[k]

-----------------------------------------------------------------------------
(***************************************************************************)
(* Line 78: text = re.sub(r'\s+', ' ', text.strip())                       *)
(***************************************************************************)
RECURSIVE LStrip(_)
LStrip(t) ==
    IF t # <<>> /\ Head(t) \in Whitespace THEN LStrip(Tail(t)) ELSE t

RECURSIVE RStrip(_)
RStrip(t) ==
    IF t # <<>> /\ t[Len(t)] \in Whitespace
    THEN RStrip(SubSeq(t, 1, Len(t) - 1))
    ELSE t

\* str.strip()
Strip(t) == RStrip(LStrip(t))

\* re.sub(r'\s+', ' ', t): every maximal run of whitespace becomes one space.
\* What character k contributes depends on it and on the one before it; the
\* text is halved so that the evaluation stays shallow.
CollapseAt(t, k) ==
    IF t[k] \notin Whitespace THEN <<t[k]>>
    ELSE IF k > 1 /\ t[k - 1] \in Whitespace THEN <<>>
    ELSE <<" ">>

RECURSIVE CollapseRange(_, _, _)
CollapseRange(t, lo, hi) ==
    IF lo > hi THEN <<>>
    ELSE IF lo = hi THEN CollapseAt(t, lo)
    ELSE LET mid == (lo + hi) \div 2
         IN  CollapseRange(t, lo, mid) \o CollapseRange(t, mid + 1, hi)

Collapse(t) == CollapseRange(t, 1, Len(t))

Normalise(t) == Collapse(Strip(t))

-----------------------------------------------------------------------------
(***************************************************************************)
(* Lines 82-85: re.match(r'<section\s+id="([^"]+)"\s+title="([^"]+)">',    *)
(* text[start:]).  Every piece of the pattern has one way to match: \s+ is *)
(* followed by a letter and [^"]+ by a quote, so the greedy match is the   *)
(* only one.                                                               *)
(***************************************************************************)
\* the position after the maximal run of whitespace that starts at p
RECURSIVE SkipSpace(_, _)
SkipSpace(t, p) ==
    IF p < Len(t) /\ t[p + 1] \in Whitespace THEN SkipSpace(t, p + 1) ELSE p

\* the position of the first quote at or after p, Len(t) when there is none
RECURSIVE NextQuote(_, _)
NextQuote(t, p) ==
    IF p < Len(t) /\ t[p + 1] # Quote THEN NextQuote(t, p + 1) ELSE p

NoMatch == [ok |-> FALSE, id |-> <<>>, title |-> <<>>, end |-> 0]

\* end is section_start.end() counted from the start of t, not from start
MatchOpen(t, start) ==
    IF ~StartsWith(t, LitSection, start) THEN NoMatch
    ELSE
    LET p1 == start + Len(LitSection)
        p2 == SkipSpace(t, p1)
    IN  IF p2 = p1 \/ ~StartsWith(t, LitId, p2) THEN NoMatch
        ELSE
        LET p3 == p2 + Len(LitId)
            q1 == NextQuote(t, p3)
        IN  IF q1 = p3 \/ q1 >= Len(t) THEN NoMatch
            ELSE
            LET p4 == q1 + 1
                p5 == SkipSpace(t, p4)
            IN  IF p5 = p4 \/ ~StartsWith(t, LitTitle, p5) THEN NoMatch
                ELSE
                LET p6 == p5 + Len(LitTitle)
                    q2 == NextQuote(t, p6)
                IN  IF q2 = p6 \/ q2 >= Len(t) \/ ~StartsWith(t, <<">">>, q2 + 1)
                    THEN NoMatch
                    ELSE [ok    |-> TRUE,
                          id    |-> SubSeq(t, p3 + 1, q1),
                          title |-> SubSeq(t, p6 + 1, q2),
                          end   |-> q2 + 2]

-----------------------------------------------------------------------------
(***************************************************************************)
(* Lines 71-73 and 80-112: Section and parse_section.                      *)
(***************************************************************************)
\* Section(section_id, title): subsections defaults to a new empty list
Section(id, title) == [section_id |-> id, title |-> title, subsections |-> <<>>]

\* line 107: current_section.subsections.append(subsection)
AppendSubsectionReversed(cur, sub) ==
    [cur EXCEPT !.subsections = <<sub>> \o @]

AppendSubsection(cur, sub) ==
    [cur EXCEPT !.subsections = Append(@, sub)]

\* lines 110 and 123: pos += 1
SkipCharStuck(p) == p

SkipChar(p) == p + 1

\* line 101: text.startswith('</section>', pos)
AtCloseNever(t, p) == FALSE

AtClose(t, p) == StartsWith(t, LitClose, p)

\* line 88, "return None, start": a result without a section
NoSection(start) == [found |-> FALSE, section |-> Section(<<>>, <<>>), pos |-> start]

\* Lines 109-110 and 122-123, repeated: from a position p where no tag
\* starts, 'pos += 1' until the loop's condition or one of its other branches
\* takes over: the end of the text, an opening tag, or (inside a section) a
\* closing tag.  The statement-by-statement model below takes these
\* iterations one at a time.
SkipText(t, p, inSection) ==
    LET stops == {q \in SkipChar(p)..(Len(t) - 1) :
                     \/ inSection /\ AtClose(t, q)
                     \/ MatchOpen(t, q).ok}
    IN  IF stops = {} THEN Len(t)
        ELSE CHOOSE q \in stops : \A r \in stops : q <= r

\* line 112: the text ended inside the section, "return current_section, pos"
AtEndDropsSection(cur, p) == NoSection(p)

AtEnd(cur, p) == [found |-> TRUE, section |-> cur, pos |-> p]

RECURSIVE parse_section(_, _)
RECURSIVE SectionLoop(_, _, _)

\* lines 100-112: the while loop of parse_section, at position p, with
\* current_section as built so far
SectionLoop(t, p, cur) ==
    IF ~(p < Len(t)) THEN AtEnd(cur, p)
    ELSE IF AtClose(t, p)
    THEN [found |-> TRUE, section |-> cur, pos |-> p + CloseLen]
    ELSE LET sub == parse_section(t, p)
         IN  IF sub.found
             THEN SectionLoop(t, sub.pos, AppendSubsection(cur, sub.section))
             ELSE SectionLoop(t, SkipText(t, p, TRUE), cur)

parse_section(t, start) ==
    LET m == MatchOpen(t, start)
    IN  IF ~m.ok THEN NoSection(start)
        ELSE SectionLoop(t, m.end, Section(m.id, m.title))

\* lines 115-125: the top-level loop
RECURSIVE TopLoopEndsAtClose(_, _, _)
TopLoopEndsAtClose(t, p, secs) ==
    IF ~(p < Len(t)) \/ AtClose(t, p) THEN secs
    ELSE LET s == parse_section(t, p)
         IN  IF s.found
             THEN TopLoopEndsAtClose(t, s.pos, Append(secs, s.section))
             ELSE TopLoopEndsAtClose(t, SkipText(t, p, TRUE), secs)

RECURSIVE TopLoop(_, _, _)
TopLoop(t, p, secs) ==
    IF ~(p < Len(t)) THEN secs
    ELSE LET s == parse_section(t, p)
         IN  IF s.found
             THEN TopLoop(t, s.pos, Append(secs, s.section))
             ELSE TopLoop(t, SkipText(t, p, FALSE), secs)

parse_sections(t) == TopLoop(Normalise(t), 0, <<>>)

-----------------------------------------------------------------------------
(***************************************************************************)
(* Lines 162-178 and 221-236: make_outline and merge_outlines after the    *)
(* call of lm.get_response.  The response is message.content of the chat   *)
(* completion: a string, or None.  parse_sections(None) raises (None has   *)
(* no strip), and the bare except turns that into outline = None.          *)
(***************************************************************************)
\* the topic both __main__ steps pass (lines 302 and 322)
Topic == "FDR's character and presidency"

NoneResponse == [none |-> TRUE, chars |-> <<>>]

StrResponse(t) == [none |-> FALSE, chars |-> t]

NoneOutline == [none |-> TRUE, sections |-> <<>>]

\* lines 165-170 and 224-229: try parse_sections(res), except: outline = None
TryParse(r) ==
    IF r.none THEN NoneOutline
    ELSE [none |-> FALSE, sections |-> parse_sections(r.chars)]

\* lines 172-178
make_outline(topic, r) == [topic |-> topic, text |-> r, outline |-> TryParse(r)]

\* lines 231-236
merge_outlines(topic, r) == [topic |-> topic, text |-> r, outline |-> TryParse(r)]

-----------------------------------------------------------------------------
(***************************************************************************)
(* The inputs: texts put together from a few pieces, so that tags, text    *)
(* between tags, whitespace runs and broken tags all occur.                *)
(***************************************************************************)
\* <section id="..." title="...">, as the prompt of line 139 writes it
OpenTag(id, title) ==
    LitSection \o <<" ">> \o LitId \o id \o <<Quote, " ">>
        \o LitTitle \o title \o <<Quote, ">">>

\* an opening tag the pattern matches, with whitespace runs between the
\* attributes and inside the title
SpacedTitle == <<"U", " ", "\n", "V">>

SpacedTag ==
    LitSection \o <<"\n", " ">> \o LitId \o <<"b", Quote, "\t">>
        \o LitTitle \o SpacedTitle \o <<Quote, ">">>

Pieces ==
    << OpenTag(<<"a">>, <<"T">>),                        \* an opening tag
       SpacedTag,                                        \* an opening tag
       LitClose,                                         \* a closing tag
       <<" ", "<", "x">>,                                \* text
       LitSection \o <<" ">> \o LitId \o <<"c", Quote, " ">>,  \* a tag cut short
       LitTitle \o <<"W", Quote, ">">> >>                \* the rest of that tag

PieceKind == <<"open", "open", "close", "text", "head", "rest">>

PieceId == << <<"a">>, <<"b">>, <<>>, <<>>, <<"c">>, <<>> >>

PieceTitle == << <<"T">>, SpacedTitle, <<>>, <<>>, <<>>, <<"W">> >>

AllPieces == 1..Len(Pieces)

\* the pieces that are whole tags or text
TagPieces == {i \in AllPieces : PieceKind[i] \in {"open", "close", "text"}}

SeqsUpTo(S, n) == UNION {[1..k -> S] : k \in 0..n}

RECURSIVE Render(_)
Render(ps) == IF ps = <<>> THEN <<>> ELSE Pieces[Head(ps)] \o Render(Tail(ps))

-----------------------------------------------------------------------------
(***************************************************************************)
(* parse_sections, make_outline and merge_outlines applied to an input.    *)
(***************************************************************************)
\* the litreview.py script is not running
RelevanceIdle ==
    /\ rpc = "idle" /\ label = <<>> /\ score = 0 /\ sent = <<>>
    /\ batch_size = 1 /\ responses = <<>> /\ feedbacks = <<>>

TldrIdle ==
    /\ tldr_pc = "idle" /\ tldr_papers = <<>> /\ tldr_batches = <<>>
    /\ tldr_responses = <<>> /\ tldr_done = 0 /\ tldr_file = <<>>

BookIdle ==
    /\ book_pc = "idle" /\ book_batches = 0 /\ book_i = 0 /\ book_tldrs = <<>>
    /\ book_output = [exists |-> FALSE, tldrs |-> <<>>] /\ book_runs = 0

\* add_event_apple_calendar.py is not running
CalendarIdle ==
    /\ cal_pc = "idle" /\ cal_response = <<>>
    /\ cal_script = [none |-> TRUE, tokens |-> <<>>]
    /\ cal_asked = FALSE /\ cal_proceed = <<>> /\ cal_file = "absent"
    /\ cal_runs = 0

\* no LM object exists
LMIdle ==
    /\ lm_pc = "idle" /\ lm_messages = <<>> /\ lm_before = <<>>
    /\ lm_n = [none |-> TRUE, n |-> 0] /\ lm_add = FALSE

\* download_pdf.py is not running
DownloadIdle ==
    /\ dl_pc = "idle" /\ dl_todo = <<>> /\ dl_bibcode = <<>> /\ dl_files = <<>>
    /\ dl_result = [none |-> TRUE, path |-> <<>>, raised |-> FALSE]
    /\ dl_pdf = <<>> /\ dl_saved = <<>> /\ dl_runs = 0

ScriptsIdle == CalendarIdle /\ LMIdle /\ DownloadIdle

ToolsIdle == RelevanceIdle /\ TldrIdle /\ BookIdle /\ ScriptsIdle

FrontierIdle ==
    /\ fpc = "idle" /\ token = FALSE /\ queries = <<>> /\ query = <<"text", "">>
    /\ query_stats = <<>> /\ all_papers = {} /\ candidates = <<>>
    /\ retrieved = <<>>
    /\ title_relevances = <<>> /\ abstract_relevances = <<>>
    /\ disk = [exists |-> FALSE, papers |-> {}, query_stats |-> <<>>, queries |-> <<>>]
    /\ searched = <<>> /\ calls = {} /\ log = "" /\ iterations = 0

ScanIdle == /\ stext = <<>> /\ frames = <<>> /\ pos = 0 /\ roots = <<>>

InitParse ==
    /\ pieces \in SeqsUpTo(AllPieces, MaxPieces) \cup SeqsUpTo(TagPieces, MaxTagPieces)
    /\ res \in {StrResponse(Render(pieces))}
                 \cup (IF pieces = <<>> THEN {NoneResponse} ELSE {})
    /\ sections = <<>>
    /\ out = make_outline("", NoneResponse)
    /\ ppc = "input"
    /\ ScanIdle
    /\ FrontierIdle
    /\ ToolsIdle

CallParseSections ==
    /\ ppc = "input"
    /\ ~res.none
    /\ sections' = parse_sections(res.chars)
    /\ ppc' = "parsed"
    /\ UNCHANGED <<pieces, res, out, stext, frames, pos, roots, frontierVars, toolVars>>

CallMakeOutline ==
    /\ ppc = "input"
    /\ out' = make_outline(Topic, res)
    /\ ppc' = "outlined"
    /\ UNCHANGED <<pieces, res, sections, stext, frames, pos, roots, frontierVars, toolVars>>

CallMergeOutlines ==
    /\ ppc = "input"
    /\ out' = merge_outlines(Topic, res)
    /\ ppc' = "merged"
    /\ UNCHANGED <<pieces, res, sections, stext, frames, pos, roots, frontierVars, toolVars>>

NextParse == CallParseSections \/ CallMakeOutline \/ CallMergeOutlines

SpecParse == InitParse /\ [][NextParse]_vars

-----------------------------------------------------------------------------
(***************************************************************************)
(* parse_sections statement by statement (lines 76-125): one action per    *)
(* iteration of the top-level loop or of the loop of the innermost active  *)
(* call of parse_section.  A frame is one active call: its current_section *)
(* and its pos.  re.match is one library call, so it is one step.          *)
(***************************************************************************)
Frame(sec, p) == [current_section |-> sec, pos |-> p]

Depth == Len(frames)

TopFrame == frames[Depth]

Callers == SubSeq(frames, 1, Depth - 1)

InitScan ==
    /\ pieces \in SeqsUpTo(AllPieces, MaxScanPieces)
    /\ res = StrResponse(Render(pieces))
    /\ sections = <<>>
    /\ out = make_outline("", NoneResponse)
    /\ ppc = "scan"
    /\ stext = Normalise(res.chars)
    /\ frames = <<>>
    /\ pos = 0
    /\ roots = <<>>
    /\ FrontierIdle
    /\ ToolsIdle

\* lines 117-118, 87-88, 122-123: no opening tag at pos
TopSkip ==
    /\ ppc = "scan" /\ Depth = 0
    /\ pos < Len(stext)
    /\ ~MatchOpen(stext, pos).ok
    /\ pos' = SkipChar(pos)
    /\ UNCHANGED <<pieces, res, sections, out, ppc, stext, frames, roots, frontierVars, toolVars>>

\* lines 117-118, 82-97: an opening tag at pos, parse_section enters its loop
TopEnter ==
    /\ ppc = "scan" /\ Depth = 0
    /\ pos < Len(stext)
    /\ LET m == MatchOpen(stext, pos)
       IN  /\ m.ok
           /\ frames' = <<Frame(Section(m.id, m.title), m.end)>>
    /\ UNCHANGED <<pieces, res, sections, out, ppc, stext, pos, roots, frontierVars, toolVars>>

\* line 125: the top-level loop ends
TopReturn ==
    /\ ppc = "scan" /\ Depth = 0
    /\ ~(pos < Len(stext))
    /\ sections' = roots
    /\ ppc' = "done"
    /\ UNCHANGED <<pieces, res, out, stext, frames, pos, roots, frontierVars, toolVars>>

\* The innermost call returns (sec, p) to its caller: the top-level loop
\* (lines 119-121) or the loop of the enclosing call (lines 106-108).
Return(sec, p) ==
    IF Depth = 1
    THEN /\ roots' = Append(roots, sec)
         /\ pos' = p
         /\ frames' = <<>>
    ELSE /\ frames' = [Callers EXCEPT ![Depth - 1] =
                          Frame(AppendSubsection(@.current_section, sec), p)]
         /\ UNCHANGED <<pos, roots>>

\* lines 100-102: the closing tag
SectionClose ==
    /\ ppc = "scan" /\ Depth > 0
    /\ TopFrame.pos < Len(stext)
    /\ AtClose(stext, TopFrame.pos)
    /\ Return(TopFrame.current_section, TopFrame.pos + CloseLen)
    /\ UNCHANGED <<pieces, res, sections, out, ppc, stext, frontierVars, toolVars>>

\* lines 100, 112: the text ends inside the section
SectionEnd ==
    /\ ppc = "scan" /\ Depth > 0
    /\ ~(TopFrame.pos < Len(stext))
    /\ Return(TopFrame.current_section, TopFrame.pos)
    /\ UNCHANGED <<pieces, res, sections, out, ppc, stext, frontierVars, toolVars>>

\* lines 105, 82-97: an opening tag inside the section
SectionEnter ==
    /\ ppc = "scan" /\ Depth > 0
    /\ TopFrame.pos < Len(stext)
    /\ ~AtClose(stext, TopFrame.pos)
    /\ LET m == MatchOpen(stext, TopFrame.pos)
       IN  /\ m.ok
           /\ frames' = Append(frames, Frame(Section(m.id, m.title), m.end))
    /\ UNCHANGED <<pieces, res, sections, out, ppc, stext, pos, roots, frontierVars, toolVars>>

\* lines 105, 87-88, 109-110: no tag at pos inside the section
SectionSkip ==
    /\ ppc = "scan" /\ Depth > 0
    /\ TopFrame.pos < Len(stext)
    /\ ~AtClose(stext, TopFrame.pos)
    /\ ~MatchOpen(stext, TopFrame.pos).ok
    /\ frames' = [frames EXCEPT ![Depth].pos = SkipChar(@)]
    /\ UNCHANGED <<pieces, res, sections, out, ppc, stext, pos, roots, frontierVars, toolVars>>

NextScan ==
    \/ TopSkip
    \/ TopEnter
    \/ TopReturn
    \/ SectionClose
    \/ SectionEnd
    \/ SectionEnter
    \/ SectionSkip

\* The interpreter runs the next statement: nothing else is scheduled.
SpecScan == InitScan /\ [][NextScan]_vars /\ WF_vars(NextScan)

\* The statement-by-statement run returns what parse_sections computes.
ScanAgrees == ppc = "done" => sections = parse_sections(res.chars)

-----------------------------------------------------------------------------
(***************************************************************************)
(* What the claims about parse_sections speak of: the nesting a sequence   *)
(* of pieces spells out, read piece by piece and not character by          *)
(* character, and the markup of a forest.                                  *)
(***************************************************************************)
\* the nesting depth after the first k pieces: an opening tag opens a
\* section, a closing tag closes the innermost open one, and the two halves
\* of the cut tag make an opening tag when they stand side by side
RECURSIVE DepthAfter(_, _)
DepthAfter(ps, k) ==
    IF k = 0 THEN 0
    ELSE LET d    == DepthAfter(ps, k - 1)
             kind == PieceKind[ps[k]]
         IN  IF kind = "open" THEN d + 1
             ELSE IF kind = "rest" /\ k > 1 /\ PieceKind[ps[k - 1]] = "head" THEN d + 1
             ELSE IF kind = "close" /\ d > 0 THEN d - 1
             ELSE d

\* whole tags and text only, every opening tag with its own closing tag
WellFormed(ps) ==
    /\ \A k \in 1..Len(ps) : ps[k] \in TagPieces
    /\ \A k \in 1..Len(ps) : PieceKind[ps[k]] = "close" => DepthAfter(ps, k - 1) > 0
    /\ DepthAfter(ps, Len(ps)) = 0

\* the forest a well-formed sequence spells out; open holds the sections
\* still open, outermost first, under a holder of the roots
RECURSIVE RefBuild(_, _, _)
RefBuild(ps, open, collapsed) ==
    IF ps = <<>> THEN open
    ELSE LET i == Head(ps)
             n == Len(open)
         IN  IF PieceKind[i] = "open"
             THEN RefBuild(Tail(ps),
                           Append(open,
                                  IF collapsed
                                  THEN Section(Collapse(PieceId[i]), Collapse(PieceTitle[i]))
                                  ELSE Section(PieceId[i], PieceTitle[i])),
                           collapsed)
             ELSE IF PieceKind[i] = "close"
             THEN RefBuild(Tail(ps),
                           [SubSeq(open, 1, n - 1) EXCEPT ![n - 1].subsections =
                               Append(@, open[n])],
                           collapsed)
             ELSE RefBuild(Tail(ps), open, collapsed)

RefForest(ps, collapsed) ==
    RefBuild(ps, <<Section(<<>>, <<>>)>>, collapsed)[1].subsections

\* <section id="..." title="...">children</section>, children in order
RECURSIVE Serialize(_)
Serialize(secs) ==
    IF secs = <<>> THEN <<>>
    ELSE OpenTag(Head(secs).section_id, Head(secs).title)
             \o Serialize(Head(secs).subsections) \o LitClose
             \o Serialize(Tail(secs))

\* the closing tags of ps that have no open section to close
UnmatchedCloses(ps) ==
    {k \in 1..Len(ps) : PieceKind[ps[k]] = "close" /\ DepthAfter(ps, k - 1) = 0}

\* the text of ps with piece k left out, or replaced by filler
RenderWithout(ps, k) == Render(SubSeq(ps, 1, k - 1)) \o Render(SubSeq(ps, k + 1, Len(ps)))

RenderReplaced(ps, k, filler) ==
    Render(SubSeq(ps, 1, k - 1)) \o filler \o Render(SubSeq(ps, k + 1, Len(ps)))

RECURSIVE CountSections(_)
CountSections(secs) ==
    IF secs = <<>> THEN 0
    ELSE 1 + CountSections(Head(secs).subsections) + CountSections(Tail(secs))

\* the opening tags the text of ps holds
CountOpenTags(ps) ==
    Cardinality({k \in 1..Len(ps) :
        \/ PieceKind[ps[k]] = "open"
        \/ PieceKind[ps[k]] = "rest" /\ k > 1 /\ PieceKind[ps[k - 1]] = "head"})

-----------------------------------------------------------------------------
(***************************************************************************)
(* C1 (as stated).  For every well-formed input, parse_sections returns    *)
(* the forest of the input: same nesting, same sibling order, and exactly  *)
(* the ids and titles written in the tags.                                 *)
(***************************************************************************)
C1_ExactForest ==
    (ppc = "parsed" /\ WellFormed(pieces)) => sections = RefForest(pieces, FALSE)

(***************************************************************************)
(* C1 (amended).  For every well-formed input, parse_sections returns the  *)
(* forest of the input: same nesting, same sibling order, and the ids and  *)
(* titles of the tags with every run of whitespace replaced by one space   *)
(* (line 78 normalises the whole text, attribute values included).         *)
(***************************************************************************)
C1_ForestUpToWhitespace ==
    (ppc = "parsed" /\ WellFormed(pieces)) => sections = RefForest(pieces, TRUE)

\* a root with two children, the second with a title that had a whitespace run
C1_Witness ==
    /\ ppc = "parsed" /\ WellFormed(pieces)
    /\ Len(sections) = 1
    /\ Len(sections[1].subsections) = 2
    /\ sections[1].subsections[1].title = <<"T">>
    /\ sections[1].subsections[2].title = <<"U", " ", "V">>
    /\ sections[1].subsections[2].subsections = <<>>

(***************************************************************************)
(* C3.  Round trip: the forest parse_sections returned, written back as    *)
(* nested <section id title> markup and parsed again, is the same forest.  *)
(***************************************************************************)
C3_RoundTrip ==
    ppc = "parsed" => parse_sections(Serialize(sections)) = sections

\* a forest with two children under one parent, parsed from a text that is
\* not its own markup (the sections were never closed)
C3_Witness ==
    /\ ppc = "parsed"
    /\ sections # <<>>
    /\ Len(sections[1].subsections) = 2
    /\ sections[1].subsections[1] # sections[1].subsections[2]
    /\ Serialize(sections) # Normalise(res.chars)

(***************************************************************************)
(* C4 (as stated).  A closing tag with no open section creates no node,    *)
(* and the forest is the one of the input with that closing tag removed.   *)
(***************************************************************************)
C4_SameAsRemoved ==
    ppc = "parsed" =>
        \A k \in UnmatchedCloses(pieces) :
            /\ CountSections(sections) <= CountOpenTags(pieces)
            /\ sections = parse_sections(RenderWithout(pieces, k))

(***************************************************************************)
(* C4 (amended).  A closing tag with no open section creates no node and   *)
(* closes nothing: the forest is the one of the input with that closing    *)
(* tag replaced by plain text.  (Removing it can join the text on its two  *)
(* sides into a new opening tag.)                                          *)
(***************************************************************************)
C4_SameAsPlainText ==
    ppc = "parsed" =>
        \A k \in UnmatchedCloses(pieces) :
            /\ CountSections(sections) <= CountOpenTags(pieces)
            /\ sections = parse_sections(RenderReplaced(pieces, k, <<"x">>))

\* an unmatched closing tag between two root sections
C4_Witness ==
    /\ ppc = "parsed"
    /\ \E k \in UnmatchedCloses(pieces) :
          /\ k > 1 /\ k < Len(pieces)
          /\ PieceKind[pieces[k + 1]] = "open"
    /\ Len(sections) = 2

(***************************************************************************)
(* C5.  make_outline and merge_outlines: when no section can be parsed out *)
(* of the response, the record's outline is None and its text is the raw   *)
(* response.                                                               *)
(***************************************************************************)
NothingParsed(r) == r.none \/ parse_sections(r.chars) = <<>>

C5_NullOutline ==
    (ppc \in {"outlined", "merged"} /\ NothingParsed(res)) =>
        (out.outline.none /\ out.text = res)

-----------------------------------------------------------------------------
(***************************************************************************)
(* C2.  parse_sections terminates on every input, broken and unclosed tags *)
(* included: the position of no loop ever decreases, every finished        *)
(* iteration of a loop (a skipped character, a consumed closing tag, a     *)
(* returned subsection) leaves that loop's position strictly greater, a    *)
(* call of parse_section starts its loop past the caller's position, and   *)
(* the top-level loop ends.                                                *)
(***************************************************************************)
CurrentPos == IF Depth = 0 THEN pos ELSE TopFrame.pos

LoopAdvances ==
    /\ pos' >= pos
    /\ \A d \in 1..Min(Len(frames), Len(frames')) : frames'[d].pos >= frames[d].pos
    /\ (ppc' = "scan" /\ Len(frames') <= Len(frames)) =>
          IF Len(frames') = 0
          THEN pos' > pos
          ELSE frames'[Len(frames')].pos > frames[Len(frames')].pos
    /\ Len(frames') > Len(frames) => frames'[Len(frames')].pos > CurrentPos

C2_Terminates == [][LoopAdvances]_vars /\ <>(ppc = "done")

\* a finished run over a text with a tag cut short and a section never closed
C2_Witness ==
    /\ ppc = "done"
    /\ \E k \in 1..Len(pieces) :
          /\ PieceKind[pieces[k]] = "head"
          /\ (k = Len(pieces) \/ PieceKind[pieces[k + 1]] # "rest")
    /\ DepthAfter(pieces, Len(pieces)) > 0
    /\ sections # <<>>

-----------------------------------------------------------------------------
(***************************************************************************)
(* C23.  Sections that are never closed.  In an input of whole tags and    *)
(* text, an opening tag is unclosed when the nesting depth never falls     *)
(* back below the depth it opened.  The unclosed sections are nested in    *)
(* one another, so the one opened at depth d - 1 is looked for as the last *)
(* node at depth d of the forest.                                          *)
(***************************************************************************)
OnlyTags(ps) == \A k \in 1..Len(ps) : ps[k] \in TagPieces

Unclosed(ps) ==
    {k \in 1..Len(ps) :
        /\ PieceKind[ps[k]] = "open"
        /\ \A j \in k..Len(ps) : DepthAfter(ps, j) >= DepthAfter(ps, k)}

\* the id and title a node for piece i carries (line 78 collapses whitespace)
Heading(i) == <<Collapse(PieceId[i]), Collapse(PieceTitle[i])>>

\* the headings of the sections opened after piece k directly inside the
\* section piece k opens, from piece j on
RECURSIVE OpenedInside(_, _, _)
OpenedInside(ps, k, j) ==
    IF j > Len(ps) THEN <<>>
    ELSE IF PieceKind[ps[j]] = "open" /\ DepthAfter(ps, j - 1) = DepthAfter(ps, k)
    THEN <<Heading(ps[j])>> \o OpenedInside(ps, k, j + 1)
    ELSE OpenedInside(ps, k, j + 1)

\* the root sections opened by the first k pieces
RootsOpened(ps, k) ==
    Cardinality({j \in 1..k : PieceKind[ps[j]] = "open" /\ DepthAfter(ps, j - 1) = 0})

\* the last node at depth d of a forest, a node without heading if none
RECURSIVE LastAt(_, _)
LastAt(secs, d) ==
    IF secs = <<>> THEN Section(<<>>, <<>>)
    ELSE IF d = 1 THEN secs[Len(secs)]
    ELSE LastAt(secs[Len(secs)].subsections, d - 1)

Headings(secs) == [k \in 1..Len(secs) |-> <<secs[k].section_id, secs[k].title>>]

\* C23: every unclosed section is a node of the forest returned, its
\* children are the sections opened after its opening tag outside any other
\* open section, in order, and no section opened after an unclosed section
\* is a root.
C23_UnclosedConsumesRest ==
    (ppc = "parsed" /\ OnlyTags(pieces)) =>
        \A k \in Unclosed(pieces) :
            LET node == LastAt(sections, DepthAfter(pieces, k))
            IN  /\ <<node.section_id, node.title>> = Heading(pieces[k])
                /\ Headings(node.subsections) = OpenedInside(pieces, k, k + 1)
                /\ Len(sections) = RootsOpened(pieces, k)
                /\ CountSections(sections) = CountOpenTags(pieces)

\* a root that is never closed; the two closed sections that follow it are
\* its children
C23_Witness ==
    /\ ppc = "parsed" /\ OnlyTags(pieces)
    /\ Cardinality(Unclosed(pieces)) = 1
    /\ Len(sections) = 1
    /\ Len(sections[1].subsections) = 2
    /\ \E k \in Unclosed(pieces) : k = 1 /\ Len(pieces) = 5

-----------------------------------------------------------------------------
(***************************************************************************)
(* litreview.py, the __main__ block (lines 283-464): the frontier loop.    *)
(*                                                                         *)
(* A paper is its bibcode (title and abstract are only passed on to the    *)
(* prompts).  A query is <<kind, x>>: <<"text", x>> is a string the LLM    *)
(* suggests, <<"citations", b>> is 'citations(bibcode:b)' and              *)
(* <<"references", b>> is 'references(bibcode:b)' (lines 438-439).  An     *)
(* entry of query_stats is a dictionary: keys holds the keys that are set, *)
(* the other fields the values of the keys that have one (the flag keys    *)
(* are always True); a rate n / d is kept as <<n, d>>.                      *)
(***************************************************************************)
\* the bibcodes the search API knows
Bibcodes == {"2020A", "2021B"}

SuggestedQueries == {<<"text", "dark matter">>, <<"text", "halo mass">>}

\* lines 438-439
CitationsQuery(b) == <<"citations", b>>

ReferencesQuery(b) == <<"references", b>>

\* the scores of the label table, lines 184-190 and 254-260
Scores == 0..3

\* lines 389 and 421: the thresholds on the title and the abstract score
TitleThreshold == 3

AbstractThreshold == 3

\* lines 382 and 415: a score counts as relevant from 2 on
RelevantScore == 2

\* line 332: query_stats[query] = {}
EmptyEntry ==
    [keys |-> {}, error |-> "", relevant_rate |-> <<0, 1>>,
     irrelevant_rate |-> <<0, 1>>, abstract_highly_relevant_rate |-> <<0, 1>>]

\* query_stats[query]['error'] = reason
WithErrorDropped(entry, reason) == entry

WithError(entry, reason) ==
    [entry EXCEPT !.keys = @ \cup {"error"}, !.error = reason]

\* query_stats[query][flag] = True
WithFlag(entry, flag) == [entry EXCEPT !.keys = @ \cup {flag}]

\* stats[q] = entry, for a q that may be new
Put(stats, q, entry) ==
    [k \in DOMAIN stats \cup {q} |-> IF k = q THEN entry ELSE stats[k]]

FilterKeepsAll(seq, keep) == seq

\* [p for p in seq if keep(p)], keep given as a set
RECURSIVE Filter(_, _)
Filter(seq, keep) ==
    IF seq = <<>> THEN <<>>
    ELSE IF Head(seq) \in keep THEN <<Head(seq)>> \o Filter(Tail(seq), keep)
    ELSE Filter(Tail(seq), keep)

Range(seq) == {seq[k] : k \in 1..Len(seq)}

\* len([p for p in rel if rel[p] in scores])
CountScores(rel, scores) == Cardinality({b \in DOMAIN rel : rel[b] \in scores})

\* what search_ads can return (lines 133-142): the docs of the response, each
\* bibcode at most once
SearchResults ==
    {r \in SeqsUpTo(Bibcodes, Cardinality(Bibcodes)) :
        \A i, j \in 1..Len(r) : r[i] = r[j] => i = j}

\* what get_title_relevance and get_abstract_relevance can return (lines
\* 200-209, 270-280): a score for every bibcode some response tagged, and at
\* least one, since a batch without any raises (lines 195-197, 265-267).  The
\* tagged bibcodes are the LLM's: they need not be among the papers sent.
RelevanceMaps ==
    UNION {[tagged -> Scores] : tagged \in (SUBSET Bibcodes) \ {{}}}

\* what get_query_suggestions can return (lines 101-105): at least one query
Suggestions == SeqsUpTo(SuggestedQueries, MaxSuggested) \ {<<>>}

NoFile == [exists |-> FALSE, papers |-> {}, query_stats |-> <<>>, queries |-> <<>>]

\* lines 451-459: save_data, written to args.output (the question never changes)
SaveData == [exists |-> TRUE, papers |-> all_papers', query_stats |-> query_stats',
             queries |-> queries']

\* What an earlier run leaves in args.output when its one iteration found
\* "2020A" for a suggested query and both assessments scored it 3: the paper,
\* the query's entry and the two new queries (lines 430-459).
EarlierFile ==
    [exists |-> TRUE,
     papers |-> {"2020A"},
     query_stats |->
        Put(<<>>, <<"text", "dark matter">>,
            [keys |-> {"relevant_rate", "irrelevant_rate",
                       "abstract_highly_relevant_rate"},
             error |-> "", relevant_rate |-> <<1, 1>>,
             irrelevant_rate |-> <<0, 1>>,
             abstract_highly_relevant_rate |-> <<1, 1>>]),
     queries |-> <<CitationsQuery("2020A"), ReferencesQuery("2020A")>>]

\* line 331: query not in query_stats
AlreadyProcessedNever(q, stats) == FALSE

AlreadyProcessed(q, stats) == q \in DOMAIN stats

\* line 328: what queries.pop(0) leaves in the queue
RestKeepsHead(queue) == queue

Rest(queue) == Tail(queue)

\* lines 307-325: the script starts; it loads args.output when it exists and
\* asks for new suggestions otherwise, or when the user answers 'y'
Start(d) ==
    /\ all_papers' = d.papers
    /\ query_stats' = d.query_stats
    /\ queries' \in (IF d.exists THEN {d.queries} ELSE {}) \cup Suggestions
    /\ fpc' = "loop"
    /\ query' = <<"text", "">>
    /\ candidates' = <<>>
    /\ retrieved' = <<>>
    /\ title_relevances' = <<>>
    /\ abstract_relevances' = <<>>
    /\ searched' = <<>>
    /\ calls' = {}
    /\ log' = "question"

\* the parser is not running
ParserIdle ==
    /\ pieces = <<>> /\ res = NoneResponse /\ sections = <<>>
    /\ out = make_outline("", NoneResponse) /\ ppc = "idle"
    /\ ScanIdle

\* The script has started (lines 307-325), without a file or with the file of
\* an earlier run.
InitFrontier ==
    /\ ParserIdle
    /\ ToolsIdle
    /\ token \in BOOLEAN
    /\ disk \in {NoFile, EarlierFile}
    /\ iterations = 0
    /\ all_papers = disk.papers
    /\ query_stats = disk.query_stats
    /\ queries \in (IF disk.exists THEN {disk.queries} ELSE {}) \cup Suggestions
    /\ fpc = "loop"
    /\ query = <<"text", "">>
    /\ candidates = <<>>
    /\ retrieved = <<>>
    /\ title_relevances = <<>>
    /\ abstract_relevances = <<>>
    /\ searched = <<>>
    /\ calls = {}
    /\ log = "question"

\* The process is killed, or has ended, and the script is started again.
Rerun ==
    /\ fpc # "idle"
    /\ iterations < MaxIterations
    /\ Start(disk)
    /\ UNCHANGED <<token, disk, iterations, parserVars, toolVars>>

\* The end of an iteration that does not reach the save: time.sleep(5);
\* continue.  The iteration's candidates and scores are not read again (the
\* next iteration assigns them before it reads them): they are forgotten.
Continue ==
    /\ fpc' = "loop"
    /\ candidates' = <<>>
    /\ retrieved' = <<>>
    /\ title_relevances' = <<>>
    /\ abstract_relevances' = <<>>
    /\ UNCHANGED <<disk, token, iterations, parserVars, toolVars>>

\* lines 327-332: a query that is not in query_stats is popped
Pop ==
    /\ fpc = "loop"
    /\ queries # <<>>
    /\ iterations < MaxIterations
    /\ ~AlreadyProcessed(Head(queries), query_stats)
    /\ iterations' = iterations + 1
    /\ query' = Head(queries)
    /\ queries' = Rest(queries)
    /\ query_stats' = Put(query_stats, Head(queries), EmptyEntry)
    /\ fpc' = "search"
    /\ calls' = {}
    /\ log' = "Processing query"
    /\ abstract_relevances' = <<>>
    /\ UNCHANGED <<all_papers, disk, searched, token, candidates, retrieved, title_relevances,
                   parserVars, toolVars>>

\* lines 327-336: a query that is in query_stats is popped and skipped
Skip ==
    /\ fpc = "loop"
    /\ queries # <<>>
    /\ iterations < MaxIterations
    /\ AlreadyProcessed(Head(queries), query_stats)
    /\ iterations' = iterations + 1
    /\ query' = Head(queries)
    /\ queries' = Rest(queries)
    /\ calls' = {}
    /\ log' = "Query already processed. Skipping..."
    /\ fpc' = "loop"
    /\ abstract_relevances' = <<>>
    /\ UNCHANGED <<query_stats, all_papers, searched, candidates, retrieved, title_relevances,
                   disk, token, parserVars, toolVars>>

\* lines 327, 463-464: the queue is empty
LoopEnd ==
    /\ fpc = "loop"
    /\ queries = <<>>
    /\ fpc' = "end"
    /\ log' = "Total papers found"
    /\ UNCHANGED <<token, queries, query, query_stats, all_papers, candidates, retrieved,
                   title_relevances, abstract_relevances, disk, searched, calls,
                   iterations, parserVars, toolVars>>

\* search_ads(query) is called once more
CountSearch ==
    /\ searched' = [q \in DOMAIN searched \cup {query} |->
                       IF q = query
                       THEN (IF q \in DOMAIN searched THEN searched[q] ELSE 0) + 1
                       ELSE searched[q]]
    /\ calls' = calls \cup {"search_ads"}

\* lines 338-345: search_ads raises (no token, lines 115-117; or the request
\* fails, line 131) and the except branch records it
SearchFails ==
    /\ fpc = "search"
    /\ CountSearch
    /\ query_stats' = [query_stats EXCEPT ![query] = WithError(@, "bad ads response")]
    /\ log' = "Error processing query"
    /\ Continue
    /\ UNCHANGED <<queries, query, all_papers>>

\* lines 339, 347-362: search_ads returns its papers
SearchReturns ==
    /\ fpc = "search"
    /\ token
    /\ CountSearch
    /\ \E found \in SearchResults :
          LET new == Filter(found, Bibcodes \ all_papers)
          IN  IF found = <<>>
              THEN /\ log' = "No papers found for query"
                   /\ Continue
                   /\ UNCHANGED query_stats
              ELSE IF new = <<>>
              THEN /\ log' = "No new papers found for query"
                   /\ query_stats' = [query_stats EXCEPT ![query] =
                                         WithFlag(@, "no_new_papers")]
                   /\ Continue
              ELSE /\ log' = "Removing duplicates"
                   /\ candidates' = new
                   /\ retrieved' = found
                   /\ fpc' = "title"
                   /\ UNCHANGED <<query_stats, title_relevances, abstract_relevances, disk, token,
                                  iterations, parserVars, toolVars>>
    /\ UNCHANGED <<queries, query, all_papers>>

\* lines 366-373: get_title_relevance raises
TitleFails ==
    /\ fpc = "title"
    /\ calls' = calls \cup {"get_title_relevance"}
    /\ query_stats' = [query_stats EXCEPT ![query] =
                          WithError(@, "bad title relevance assessment")]
    /\ log' = "Error assessing title relevance."
    /\ Continue
    /\ UNCHANGED <<queries, query, all_papers, searched>>

\* lines 367, 375-396: get_title_relevance returns its scores
TitleReturns ==
    /\ fpc = "title"
    /\ calls' = calls \cup {"get_title_relevance"}
    /\ \E rel \in RelevanceMaps :
          LET n     == Cardinality(DOMAIN rel)
              rated == [query_stats[query] EXCEPT
                           !.keys = @ \cup {"relevant_rate", "irrelevant_rate"},
                           !.relevant_rate =
                               <<CountScores(rel, RelevantScore..3), n>>,
                           !.irrelevant_rate = <<CountScores(rel, {0}), n>>]
              kept  == Filter(candidates,
                              {b \in DOMAIN rel : rel[b] >= TitleThreshold})
          IN  IF n = 0
              THEN /\ log' = "No title relevance feedback received."
                   /\ query_stats' = [query_stats EXCEPT ![query] =
                          WithError(@, "empty title relevance feedback")]
                   /\ Continue
              ELSE IF kept = <<>>
              THEN /\ log' = "No relevant titles found for query"
                   /\ query_stats' = [query_stats EXCEPT ![query] =
                          WithFlag(rated, "no_relevant_title")]
                   /\ Continue
              ELSE /\ log' = "Keeping only relevant papers"
                   /\ query_stats' = [query_stats EXCEPT ![query] = rated]
                   /\ title_relevances' = rel
                   /\ candidates' = kept
                   /\ retrieved' = <<>>
                   /\ fpc' = "abstract"
                   /\ UNCHANGED <<abstract_relevances, disk, token, iterations,
                                  parserVars, toolVars>>
    /\ UNCHANGED <<queries, query, all_papers, searched>>

\* lines 400-407: get_abstract_relevance raises
AbstractFails ==
    /\ fpc = "abstract"
    /\ calls' = calls \cup {"get_abstract_relevance"}
    /\ query_stats' = [query_stats EXCEPT ![query] =
                          WithError(@, "bad abstract relevance assessment")]
    /\ log' = "Error assessing abstract relevance."
    /\ Continue
    /\ UNCHANGED <<queries, query, all_papers, searched>>

\* lines 445-446: all_papers[paper['bibcode']] = paper, for every kept paper
AddPapersReplaces(papers, kept) == Range(kept)

AddPapers(papers, kept) == papers \cup Range(kept)

\* lines 437-439: the two new queries of every highly relevant paper, in order
NewQueriesSwapped(papers) ==
    [k \in 1..(2 * Len(papers)) |->
        IF k % 2 = 1 THEN ReferencesQuery(papers[(k + 1) \div 2])
        ELSE CitationsQuery(papers[k \div 2])]

RECURSIVE NewQueries(_)
NewQueries(papers) ==
    IF papers = <<>> THEN <<>>
    ELSE <<CitationsQuery(Head(papers)), ReferencesQuery(Head(papers))>>
             \o NewQueries(Tail(papers))

\* lines 401, 409-461: get_abstract_relevance returns its scores; the abstract
\* filter, the new queries, the new papers and the save.  The iteration's
\* candidates and title scores are forgotten as in Continue; the abstract
\* scores are forgotten when the next iteration starts.
AbstractReturns ==
    /\ fpc = "abstract"
    /\ calls' = calls \cup {"get_abstract_relevance"}
    /\ \E rel \in RelevanceMaps :
          LET n      == Cardinality(DOMAIN rel)
              kept   == Filter(candidates,
                               {b \in DOMAIN rel : rel[b] >= AbstractThreshold})
              highly == Filter(kept, {b \in DOMAIN rel : rel[b] = 3})
          IN  IF n = 0
              THEN /\ log' = "No abstract relevance feedback received."
                   /\ query_stats' = [query_stats EXCEPT ![query] =
                          WithError(@, "empty abstract relevance feedback")]
                   /\ Continue
                   /\ UNCHANGED <<queries, all_papers>>
              ELSE IF kept = <<>>
              THEN /\ log' = "No relevant papers found for query"
                   /\ query_stats' = [query_stats EXCEPT ![query] =
                          WithFlag(@, "no_relevant_abstract")]
                   /\ Continue
                   /\ UNCHANGED <<queries, all_papers>>
              ELSE /\ log' = "Saving intermediate data..."
                   /\ query_stats' = [query_stats EXCEPT ![query] =
                          [@ EXCEPT
                              !.keys = @ \cup {"abstract_highly_relevant_rate"},
                              !.abstract_highly_relevant_rate =
                                  <<CountScores(rel, {3}), n>>]]
                   /\ queries' = queries \o NewQueries(highly)
                   /\ all_papers' = AddPapers(all_papers, kept)
                   /\ disk' = SaveData
                   /\ fpc' = "loop"
                   /\ candidates' = <<>>
                   /\ retrieved' = <<>>
                   /\ title_relevances' = <<>>
                   /\ abstract_relevances' = rel
                   /\ UNCHANGED <<token, iterations, parserVars, toolVars>>
    /\ UNCHANGED <<query, searched>>

NextFrontier ==
    \/ Pop
    \/ Skip
    \/ LoopEnd
    \/ SearchFails
    \/ SearchReturns
    \/ TitleFails
    \/ TitleReturns
    \/ AbstractFails
    \/ AbstractReturns
    \/ Rerun

\* the statements of the loop: every external call returns or raises
LoopStep ==
    \/ Pop
    \/ Skip
    \/ LoopEnd
    \/ SearchFails
    \/ SearchReturns
    \/ TitleFails
    \/ TitleReturns
    \/ AbstractFails
    \/ AbstractReturns

\* The script is single-threaded: once started it runs its next statement.
\* Nothing obliges anybody to kill or restart it.
Spec == InitFrontier /\ [][NextFrontier]_vars /\ WF_vars(LoopStep)

-----------------------------------------------------------------------------
(***************************************************************************)
(* Properties of the frontier loop.                                        *)
(***************************************************************************)
\* the step is a statement of the loop, not a start of the script
InLoop == log' # "question"

\* an external call of the current iteration has raised in this step
CallFailed ==
    /\ InLoop
    /\ fpc \in {"search", "title", "abstract"}
    /\ log' \in {"Error processing query", "Error assessing title relevance.",
                 "Error assessing abstract relevance."}

\* the query the iteration in progress is about, or is about to pop
InFlight ==
    IF fpc # "loop" THEN {query}
    ELSE IF queries # <<>> THEN {Head(queries)}
    ELSE {}

\* the entries of the queries that are not in progress are left alone
OthersKept ==
    \A o \in DOMAIN query_stats \ InFlight :
        o \in DOMAIN query_stats' /\ query_stats'[o] = query_stats[o]

\* C6: when search_ads, get_title_relevance or get_abstract_relevance raises
\* for the current query, the query's entry gets an 'error' key with a
\* non-empty reason, no paper is added, no query is pushed, the other entries
\* are untouched and the loop is back at its head, ready for the next query:
\* the failure does not end the run.
C6_FailureRecorded ==
    [][CallFailed =>
          /\ "error" \in query_stats'[query].keys
          /\ query_stats'[query].error # ""
          /\ OthersKept
          /\ all_papers' = all_papers
          /\ queries' = queries
          /\ query' = query
          /\ fpc' = "loop"]_vars

\* a title assessment failed for one query and the next query is in progress
C6_Witness ==
    /\ fpc = "search"
    /\ \E q \in DOMAIN query_stats :
          /\ q # query
          /\ query_stats[q].error = "bad title relevance assessment"
          /\ q \notin DOMAIN disk.query_stats

\* C7 (as claimed): without ADS_API_TOKEN the run aborts at the first search:
\* no query gets an 'error' entry and no second iteration starts.
C7_MissingTokenAborts ==
    ~token =>
        /\ \A q \in DOMAIN query_stats : "error" \notin query_stats[q].keys
        /\ iterations <= 1

\* C8 (as claimed): the file holds the entry of every query whose iteration is
\* over, and the papers in memory.
C8_DiskReflectsCompleted ==
    /\ all_papers \subseteq disk.papers
    /\ \A q \in DOMAIN query_stats :
          (fpc \in {"loop", "end"} \/ q # query) =>
              /\ q \in DOMAIN disk.query_stats
              /\ disk.query_stats[q] = query_stats[q]

\* the popped query is a key of query_stats
SkipCase ==
    /\ InLoop
    /\ fpc = "loop"
    /\ queries # <<>>
    /\ Head(queries) \in DOMAIN query_stats

\* C9: an iteration whose popped query is already a key of query_stats makes
\* no external call, logs the warning and changes neither query_stats nor
\* all_papers nor the rest of the queue; no statement of the loop changes the
\* entry of a query other than the one in progress, and no save changes an
\* entry the file already holds.
C9_Skipped ==
    [][/\ SkipCase =>
            /\ calls' = {}
            /\ searched' = searched
            /\ log' = "Query already processed. Skipping..."
            /\ query_stats' = query_stats
            /\ all_papers' = all_papers
            /\ queries' = Tail(queries)
            /\ disk' = disk
            /\ fpc' = "loop"
       /\ InLoop => OthersKept
       /\ \A q \in DOMAIN disk.query_stats :
             /\ q \in DOMAIN disk'.query_stats
             /\ disk'.query_stats[q] = disk.query_stats[q]]_vars

\* a query with a recorded outcome has just been skipped
C9_Witness ==
    /\ log = "Query already processed. Skipping..."
    /\ query \in DOMAIN query_stats
    /\ query_stats[query].keys # {}
    /\ calls = {}

\* what bounds the work left: the queue, and two queries for every bibcode
\* that is not a key of all_papers yet
Measure == Len(queries) + 2 * Cardinality(Bibcodes \ all_papers)

\* C10: every iteration takes one query off the queue and pushes two queries
\* only for a bibcode that becomes a key of all_papers, so the work left
\* shrinks with every iteration started and never grows inside one; the loop
\* exits only with an empty queue; and every iteration followed comes to its
\* end, the loop exiting unless more iterations than are followed remain.
C10_Terminates ==
    /\ [][InLoop =>
             /\ Measure' <= Measure
             /\ (fpc = "loop" /\ fpc' # "end") => Measure' < Measure]_vars
    /\ [](fpc = "end" => queries = <<>>)
    /\ <>(fpc = "end" \/ (fpc = "loop" /\ iterations = MaxIterations))

\* the loop has exited after processing the two queries pushed for a paper
C10_Witness ==
    /\ fpc = "end"
    /\ queries = <<>>
    /\ iterations = 2
    /\ CitationsQuery("2020A") \in DOMAIN query_stats
    /\ ReferencesQuery("2020A") \in DOMAIN query_stats

\* C11: no step removes a key of all_papers, be it a statement of an
\* iteration (success, error, skip or empty) or a restart of the script that
\* loads the file; nor does a save remove a paper the file holds.
C11_PapersOnlyGrow ==
    [][/\ all_papers \subseteq all_papers'
       /\ disk.papers \subseteq disk'.papers]_vars

\* an iteration added a paper to the loaded one, and the next iteration
\* failed: both papers are still there
C11_Witness ==
    /\ all_papers = {"2020A", "2021B"}
    /\ iterations = 2
    /\ log = "Error processing query"
    /\ fpc = "loop"

\* the queries a step appends to the queue
Pushed ==
    IF Len(queries') > Len(queries)
    THEN {queries'[k] : k \in (Len(queries) + 1)..Len(queries')}
    ELSE {}

\* C12: within one run search_ads is called at most once for a query, whether
\* the query failed or is queued several times; a query in progress is never
\* one the loaded (or since saved) file records; and no statement of the loop
\* appends a query that has an entry in query_stats, failed or not.
C12_NothingRetried ==
    /\ [](\A q \in DOMAIN searched : searched[q] <= 1)
    /\ [](fpc \in {"search", "title", "abstract"} =>
             query \notin DOMAIN disk.query_stats)
    /\ [][InLoop => Pushed \cap DOMAIN query_stats' = {}]_vars

\* a query that is queued twice failed in its search and, popped again, was
\* skipped: search_ads was called for it once
C12_Witness ==
    /\ log = "Query already processed. Skipping..."
    /\ query \in DOMAIN searched
    /\ searched[query] = 1
    /\ query_stats[query].error = "bad ads response"

\* the iteration has kept papers: it reaches lines 430-461
Keeps == InLoop /\ fpc = "abstract" /\ log' = "Saving intermediate data..."

\* the papers the step adds whose abstract score is 3, in the order of the
\* candidates
HighlyRelevantAdded ==
    Filter(candidates,
           {b \in all_papers' \ all_papers :
               b \in DOMAIN abstract_relevances' /\ abstract_relevances'[b] = 3})

\* C13: an iteration that keeps papers leaves the queue as it was and appends,
\* for each added paper with abstract score 3 in turn, its citations query
\* and then its references query, and nothing else; every other statement of
\* the loop appends nothing (it leaves the queue alone or pops its head).
C13_TwoQueriesPerPaper ==
    [][InLoop =>
          IF Keeps
          THEN LET h == HighlyRelevantAdded
                   n == Len(queries)
               IN  /\ Len(queries') = n + 2 * Len(h)
                   /\ \A k \in 1..n : queries'[k] = queries[k]
                   /\ \A k \in 1..Len(h) :
                         /\ queries'[n + 2 * k - 1] = <<"citations", h[k]>>
                         /\ queries'[n + 2 * k] = <<"references", h[k]>>
          ELSE \/ queries' = queries
               \/ queries # <<>> /\ queries' = Tail(queries)]_vars

\* both bibcodes were kept with abstract score 3 and four queries were pushed
C13_Witness ==
    /\ log = "Saving intermediate data..."
    /\ DOMAIN abstract_relevances = Bibcodes
    /\ \A b \in Bibcodes : abstract_relevances[b] = 3
    /\ all_papers = Bibcodes
    /\ Len(queries) >= 4

\* C22: the candidates sent to the title assessment are papers the search
\* of this iteration returned whose bibcode is not a key of all_papers;
\* those sent to the abstract assessment are among them and have a title
\* score of at least 3; and a paper the iteration adds to all_papers is one
\* of these with an abstract score of at least 3.  A paper without a title
\* score or without an abstract score, and a bibcode the LLM tagged that the
\* search did not return, is not added.
C22_OnlyFilteredAdded ==
    /\ [](fpc = "title"
            => /\ Range(candidates) \subseteq Range(retrieved)
               /\ Range(candidates) \cap all_papers = {})
    /\ [][InLoop /\ fpc' = "abstract"
            => /\ fpc = "title"
               /\ Range(candidates') \subseteq Range(candidates)]_vars
    /\ [](fpc = "abstract"
            => \A b \in Range(candidates) :
                  /\ b \notin all_papers
                  /\ b \in DOMAIN title_relevances
                  /\ title_relevances[b] >= 3)
    /\ [][InLoop =>
            \A b \in all_papers' \ all_papers :
                /\ fpc = "abstract"
                /\ b \in Range(candidates)
                /\ b \in DOMAIN abstract_relevances'
                /\ abstract_relevances'[b] >= 3]_vars

\* one paper was added while the LLM had given the abstract score 3 to the
\* other one as well, which was not a candidate of the abstract assessment
C22_Witness ==
    /\ log = "Saving intermediate data..."
    /\ all_papers = {"2020A"}
    /\ "2021B" \in DOMAIN abstract_relevances
    /\ abstract_relevances["2021B"] = 3

-----------------------------------------------------------------------------
(***************************************************************************)
(* litreview.py, the relevance assessment (lines 144-280).                 *)
(*                                                                         *)
(* _get_title_relevance and _get_abstract_relevance differ in their prompt *)
(* only, and so do get_title_relevance and get_abstract_relevance: one     *)
(* model stands for both pairs.  A label is a sequence of characters.  An  *)
(* LLM response is the list of its <paper> entries (line 178); an entry    *)
(* has a bibcode tag and a feedback tag, or lacks one of them.             *)
(***************************************************************************)
Letters ==
    <<"a", "b", "c", "d", "e", "f", "g", "h", "i", "j", "k", "l", "m",
      "n", "o", "p", "q", "r", "s", "t", "u", "v", "w", "x", "y", "z">>

Capitals ==
    <<"A", "B", "C", "D", "E", "F", "G", "H", "I", "J", "K", "L", "M",
      "N", "O", "P", "Q", "R", "S", "T", "U", "V", "W", "X", "Y", "Z">>

\* str.lower and str.upper on one character
LowerChar(c) ==
    IF \E k \in 1..26 : Capitals[k] = c
    THEN Letters[CHOOSE k \in 1..26 : Capitals[k] = c]
    ELSE c

UpperChar(c) ==
    IF \E k \in 1..26 : Letters[k] = c
    THEN Capitals[CHOOSE k \in 1..26 : Letters[k] = c]
    ELSE c

\* line 190: feedback_label.lower()
LowerKeepsCase(l) == l

Lower(l) == [k \in 1..Len(l) |-> LowerChar(l[k])]

\* the keys of the label table, lines 185-189
HighlyRelevant ==
    <<"h", "i", "g", "h", "l", "y", " ", "r", "e", "l", "e", "v", "a", "n", "t">>

Relevant == <<"r", "e", "l", "e", "v", "a", "n", "t">>

SomewhatRelevant ==
    <<"s", "o", "m", "e", "w", "h", "a", "t", " ",
      "r", "e", "l", "e", "v", "a", "n", "t">>

Unsure == <<"u", "n", "s", "u", "r", "e">>

Irrelevant == <<"i", "r", "r", "e", "l", "e", "v", "a", "n", "t">>

\* lines 184-190: the label table, as (key, score) pairs
LabelTable ==
    {<<HighlyRelevant, 3>>, <<Relevant, 2>>, <<SomewhatRelevant, 1>>,
     <<Unsure, 1>>, <<Irrelevant, 0>>}

\* line 193: the score of a label that is not a key
DefaultScore == 1

\* lines 183-193: the table lookup and its except KeyError branch
FeedbackScore(l) ==
    LET hits == {p \in LabelTable : p[1] = Lower(l)}
    IN  IF hits = {} THEN DefaultScore
        ELSE (CHOOSE p \in hits : TRUE)[2]

\* a <paper> entry of a response: the groups of the two searches of lines
\* 181-182, when they match
Entry(b, l) == [has_bibcode |-> TRUE, bibcode |-> b, has_feedback |-> TRUE, label |-> l]

NoBibcodeEntry(l) ==
    [has_bibcode |-> FALSE, bibcode |-> "", has_feedback |-> TRUE, label |-> l]

NoFeedbackEntry(b) ==
    [has_bibcode |-> TRUE, bibcode |-> b, has_feedback |-> FALSE, label |-> <<>>]

\* what a call returns, or the exception it raises
Returned(map) == [raised |-> FALSE, error |-> "", value |-> map]

Raised(error) == [raised |-> TRUE, error |-> error, value |-> <<>>]

\* lines 180-194: the loop over the entries; .group(1) on a search that found
\* nothing raises AttributeError
RECURSIVE ParseEntries(_, _)
ParseEntries(rset, acc) ==
    IF rset = <<>> THEN Returned(acc)
    ELSE LET r == Head(rset)
         IN  IF ~r.has_bibcode \/ ~r.has_feedback THEN Raised("AttributeError")
             ELSE ParseEntries(Tail(rset),
                               Put(acc, r.bibcode, FeedbackScore(r.label)))

\* lines 178-198: _get_title_relevance on the response of the LLM
GetBatchRelevance(response) ==
    LET parsed == ParseEntries(response, <<>>)
    IN  IF parsed.raised THEN parsed
        ELSE IF DOMAIN parsed.value = {} THEN Raised("ValueError")
        ELSE parsed

\* lines 201, 272: papers[i:i+batch_size] for i in range(0, len(papers), batch_size)
NumBatches(papers, size) == (Len(papers) + size - 1) \div size

\* lines 206-207: feedbacks[bibcode] = feedback for every item of the batch
Merge(acc, batch) ==
    [b \in DOMAIN acc \cup DOMAIN batch |->
        IF b \in DOMAIN batch THEN batch[b] ELSE acc[b]]

\* lines 203-209: the loop over the batches, from batch k on; an exception of
\* a batch leaves the function
RECURSIVE BatchLoop(_, _, _, _)
BatchLoop(k, n, resps, acc) ==
    IF k > n THEN Returned(acc)
    ELSE LET one == GetBatchRelevance(resps[k])
         IN  IF one.raised THEN one
             ELSE BatchLoop(k + 1, n, resps, Merge(acc, one.value))

\* lines 200-209: get_title_relevance, given the LLM's response to each batch
GetRelevanceDefaulting(papers, size, resps) ==
    LET got == BatchLoop(1, NumBatches(papers, size), resps, <<>>)
    IN  IF got.raised THEN got
        ELSE Returned([b \in DOMAIN got.value \cup Range(papers) |->
                          IF b \in DOMAIN got.value THEN got.value[b]
                          ELSE DefaultScore])

GetRelevance(papers, size, resps) ==
    BatchLoop(1, NumBatches(papers, size), resps, <<>>)

(***************************************************************************)
(* The inputs.                                                             *)
(***************************************************************************)
\* the spellings of a label whose first MaxCased letters take either case
\* and whose other letters are all small or all capital
RECURSIVE Cased(_, _)
Cased(l, free) ==
    IF l = <<>> THEN {<<>>}
    ELSE IF free = 0
    THEN {l, [k \in 1..Len(l) |-> UpperChar(l[k])]}
    ELSE {<<c>> \o rest : c \in {Head(l), UpperChar(Head(l))},
                          rest \in Cased(Tail(l), free - 1)}

\* strings that are not one of the five labels in any case
OtherLabels ==
    {<<>>, <<"y", "e", "s">>, <<"3">>, <<" ">> \o Relevant, Relevant \o <<".">>,
     <<"r", "e", "l", "e", "v", "a", "n">>,
     <<"h", "i", "g", "h", "l", "y">>,
     <<"h", "i", "g", "h", "l", "y", "r", "e", "l", "e", "v", "a", "n", "t">>,
     <<"h", "i", "g", "h", "l", "y", " ", " ", "r", "e", "l", "e", "v", "a", "n", "t">>,
     <<"n", "o", "t", " ">> \o Relevant,
     <<"U", "n", "s", "u", "r", "e", " ">>}

LabelInputs ==
    UNION {Cased(p[1], MaxCased) : p \in LabelTable} \cup OtherLabels

\* the labels of the entries of the responses
EntryLabels ==
    {<<"R">> \o Tail(Relevant), <<"I">> \o Tail(Irrelevant), <<"y", "e", "s">>}

Entries ==
    {Entry(b, l) : b \in Bibcodes, l \in EntryLabels}
        \cup {NoFeedbackEntry("2020A")}

Responses == SeqsUpTo(Entries, MaxEntries)

\* the lists of papers sent: each bibcode at most once (line 355)
SentPapers == SearchResults

InitRelevance ==
    /\ ParserIdle
    /\ FrontierIdle
    /\ TldrIdle
    /\ BookIdle
    /\ ScriptsIdle
    /\ score = 0
    /\ feedbacks = <<>>
    /\ \/ /\ rpc = "label"
          /\ label \in LabelInputs
          /\ sent = <<>> /\ batch_size = 1 /\ responses = <<>>
       \/ /\ rpc = "batches"
          /\ label = <<>>
          /\ sent \in SentPapers
          /\ batch_size \in 1..Cardinality(Bibcodes)
          /\ responses \in [1..NumBatches(sent, batch_size) -> Responses]

\* lines 182-194 for one entry
ScoreLabel ==
    /\ rpc = "label"
    /\ score' = FeedbackScore(label)
    /\ rpc' = "scored"
    /\ UNCHANGED <<label, sent, batch_size, responses, feedbacks, relevanceFrame>>

\* lines 367 and 401: the call of get_title_relevance or get_abstract_relevance
Assess ==
    /\ rpc = "batches"
    /\ feedbacks' = GetRelevance(sent, batch_size, responses)
    /\ rpc' = "assessed"
    /\ UNCHANGED <<label, score, sent, batch_size, responses, relevanceFrame>>

NextRelevance == ScoreLabel \/ Assess

SpecRelevance == InitRelevance /\ [][NextRelevance]_vars

-----------------------------------------------------------------------------
(***************************************************************************)
(* Properties of the relevance assessment.                                 *)
(***************************************************************************)
\* l spells key, letter case aside
SameLetters(l, key) ==
    /\ Len(l) = Len(key)
    /\ \A k \in 1..Len(key) : l[k] \in {key[k], UpperChar(key[k])}

\* C14: a label that spells one of the five fixed labels, in any letter case,
\* gets that label's score (highly relevant 3, relevant 2, somewhat relevant
\* 1, unsure 1, irrelevant 0); every other label gets the default score 1;
\* the lookup never raises.
C14_LabelScore ==
    rpc = "scored" =>
        score = (IF SameLetters(label, HighlyRelevant) THEN 3
                 ELSE IF SameLetters(label, Relevant) THEN 2
                 ELSE IF SameLetters(label, SomewhatRelevant) THEN 1
                 ELSE IF SameLetters(label, Unsure) THEN 1
                 ELSE IF SameLetters(label, Irrelevant) THEN 0
                 ELSE 1)

\* 'HiGhly relevant', in mixed case, was scored 3
C14_Witness ==
    /\ rpc = "scored"
    /\ label = <<"H", "i", "G", "h", "l", "y", " ",
                 "r", "e", "l", "e", "v", "a", "n", "t">>
    /\ score = 3

\* the bibcodes of the bibcode tags of the responses
TaggedBibcodes ==
    UNION {{responses[k][i].bibcode : i \in 1..Len(responses[k])} :
              k \in DOMAIN responses}

\* C15: the mapping that get_title_relevance / get_abstract_relevance returns
\* has an entry for a bibcode exactly when some batch response tagged it: a
\* paper that was sent and is absent from the responses has no entry.
C15_EntryIffTagged ==
    (rpc = "assessed" /\ ~feedbacks.raised) =>
        DOMAIN feedbacks.value = TaggedBibcodes

\* two papers were sent, one per batch; both responses tagged the second one
\* only, and the first one has no entry
C15_Witness ==
    /\ rpc = "assessed"
    /\ ~feedbacks.raised
    /\ sent = <<"2020A", "2021B">>
    /\ batch_size = 1
    /\ DOMAIN feedbacks.value = {"2021B"}

\* the bijections of 1..n
Perms(n) == {f \in [1..n -> 1..n] : \A i, j \in 1..n : f[i] = f[j] => i = j}

\* the orders of a list
Permuted(seq) == {[i \in 1..Len(seq) |-> seq[f[i]]] : f \in Perms(Len(seq))}

\* the responses with their entries and the batches in any order
Reordered ==
    LET n == Len(responses)
    IN  {r \in [1..n -> UNION {Permuted(responses[k]) : k \in 1..n}] :
            \E g \in Perms(n) : \A k \in 1..n : r[k] \in Permuted(responses[g[k]])}

\* C16 (as claimed): whatever the order of the entries inside the responses
\* and of the batches, the call returns the same mapping (or raises as well).
C16_OrderIndependent ==
    rpc = "assessed" =>
        \A r \in Reordered :
            LET other == GetRelevance(sent, batch_size, r)
            IN  /\ other.raised = feedbacks.raised
                /\ other.value = feedbacks.value

-----------------------------------------------------------------------------
(***************************************************************************)
(* make_tldr.py: make_tldr (lines 8-35) and the batch loop of the __main__ *)
(* block (lines 61-78).  A paper of the file is its bibcode and its        *)
(* 'tldr': "" stands for a paper without that key.  An LLM response is the *)
(* list of its <paper> entries (line 28).                                  *)
(***************************************************************************)
\* a bibcode that is not a key of paper_data['papers']
UnknownBibcode == "1999Z"

\* list(papers.keys()), line 61
PaperKeys == <<"2020A", "2021B">>

\* a <paper> entry of a response: the groups of the searches of lines 31-32
TldrEntry(b) == [has_bibcode |-> TRUE, bibcode |-> b, has_tldr |-> TRUE, tldr |-> "new"]

NoTldrEntry(b) == [has_bibcode |-> TRUE, bibcode |-> b, has_tldr |-> FALSE, tldr |-> ""]

\* lines 30-35: the loop over the entries of make_tldr; .group(1) on a search
\* that found nothing raises AttributeError
RECURSIVE ParseTldrs(_, _)
ParseTldrs(rset, acc) ==
    IF rset = <<>> THEN Returned(acc)
    ELSE LET r == Head(rset)
         IN  IF ~r.has_bibcode \/ ~r.has_tldr THEN Raised("AttributeError")
             ELSE ParseTldrs(Tail(rset), Put(acc, r.bibcode, r.tldr))

\* lines 28-35: make_tldr on the response of the LLM
make_tldr(response) == ParseTldrs(response, <<>>)

\* line 63: bibcodes[i:i+batch_size] for i in range(0, len(bibcodes), batch_size)
RECURSIVE Chunks(_, _)
Chunks(seq, size) ==
    IF seq = <<>> THEN <<>>
    ELSE IF Len(seq) <= size THEN <<seq>>
    ELSE <<SubSeq(seq, 1, size)>> \o Chunks(SubSeq(seq, size + 1, Len(seq)), size)

TldrEntries ==
    {TldrEntry(b) : b \in Bibcodes \cup {UnknownBibcode}}
        \cup {NoTldrEntry("2020A")}

TldrResponses == SeqsUpTo(TldrEntries, MaxEntries)

\* lines 48-63: the file is loaded and the papers without 'tldr' are batched
InitTldr ==
    /\ ParserIdle
    /\ FrontierIdle
    /\ RelevanceIdle
    /\ BookIdle
    /\ ScriptsIdle
    /\ tldr_pc = "loop"
    /\ tldr_papers \in [Bibcodes -> {"", "old"}]
    /\ tldr_file = tldr_papers
    /\ \E size \in 1..Cardinality(Bibcodes) :
          tldr_batches =
              Chunks(Filter(PaperKeys, {b \in Bibcodes : tldr_papers[b] = ""}), size)
    /\ tldr_responses \in [1..Len(tldr_batches) -> TldrResponses]
    /\ tldr_done = 0

\* the result of make_tldr for the batch at hand
BatchTldrs == make_tldr(tldr_responses[tldr_done + 1])

\* lines 67-78: make_tldr returns and every bibcode it returns is a paper of
\* the file: the summaries are stored and the file is rewritten
TldrBatch ==
    /\ tldr_pc = "loop"
    /\ tldr_done < Len(tldr_batches)
    /\ ~BatchTldrs.raised
    /\ DOMAIN BatchTldrs.value \subseteq DOMAIN tldr_papers
    /\ tldr_papers' = [b \in DOMAIN tldr_papers |->
                          IF b \in DOMAIN BatchTldrs.value THEN BatchTldrs.value[b]
                          ELSE tldr_papers[b]]
    /\ tldr_file' = tldr_papers'
    /\ tldr_done' = tldr_done + 1
    /\ UNCHANGED <<tldr_pc, tldr_batches, tldr_responses, tldrFrame>>

\* lines 70-72: make_tldr raises AttributeError (line 31 or 32), or line 72
\* raises KeyError for a bibcode that is not in the file; nothing in the loop
\* catches it and the script ends
TldrBatchRaises ==
    /\ tldr_pc = "loop"
    /\ tldr_done < Len(tldr_batches)
    /\ \/ /\ BatchTldrs.raised
          /\ tldr_pc' = BatchTldrs.error
       \/ /\ ~BatchTldrs.raised
          /\ ~(DOMAIN BatchTldrs.value \subseteq DOMAIN tldr_papers)
          /\ tldr_pc' = "KeyError"
    /\ UNCHANGED <<tldr_papers, tldr_batches, tldr_responses, tldr_done, tldr_file,
                   tldrFrame>>

\* line 67: no batch is left
TldrEnd ==
    /\ tldr_pc = "loop"
    /\ tldr_done = Len(tldr_batches)
    /\ tldr_pc' = "done"
    /\ UNCHANGED <<tldr_papers, tldr_batches, tldr_responses, tldr_done, tldr_file,
                   tldrFrame>>

NextTldr == TldrBatch \/ TldrBatchRaises \/ TldrEnd

\* the script runs its next statement
SpecTldr == InitTldr /\ [][NextTldr]_vars /\ WF_vars(NextTldr)

\* C17 (as claimed): a response with an entry that lacks a tag costs its own
\* batch only: the script does not end on the exception while batches remain.
C17_OnlyBatchAbandoned ==
    ~(tldr_pc = "AttributeError" /\ tldr_done + 1 < Len(tldr_batches))

-----------------------------------------------------------------------------
(***************************************************************************)
(* summarize_book.py, step 'tldr' of the __main__ block (lines 261-284).   *)
(* A summary is the batch index it was tagged with (line 277) and its      *)
(* place among the summaries make_tldr returned for that batch.            *)
(***************************************************************************)
\* line 274: the loop starts at batches[50:]
BatchOffset == 50

\* line 277: the summaries of batch i, when make_tldr returns k of them
Summaries(i, k) == [n \in 1..k |-> [batch |-> i, paragraph |-> n]]

\* line 274: len(batches[50:])
BatchesLeft(total) == IF total > BatchOffset THEN total - BatchOffset ELSE 0

\* lines 269-273: tldrs is loaded from args.output when the file exists
LoadedTldrs(file) == IF file.exists THEN file.tldrs ELSE <<>>

\* line 274: enumerate starts at 0, whatever was loaded
FirstBatch(loaded) == 0

\* lines 262-273: the script starts on a text of book_batches batches
InitBook ==
    /\ ParserIdle
    /\ FrontierIdle
    /\ RelevanceIdle
    /\ TldrIdle
    /\ ScriptsIdle
    /\ book_pc = "loop"
    /\ book_batches \in {0} \cup (BatchOffset..(BatchOffset + MaxBookBatches))
    /\ book_output = [exists |-> FALSE, tldrs |-> <<>>]
    /\ book_tldrs = <<>>
    /\ book_i = FirstBatch(book_tldrs)
    /\ book_runs = 1

\* lines 274-284: one batch; the file is rewritten when make_tldr returned
\* at least one summary
BookBatch ==
    /\ book_pc = "loop"
    /\ book_i < BatchesLeft(book_batches)
    /\ \E k \in 0..MaxSummaries :
          IF k = 0
          THEN UNCHANGED <<book_tldrs, book_output>>
          ELSE /\ book_tldrs' = book_tldrs \o Summaries(book_i, k)
               /\ book_output' = [exists |-> TRUE, tldrs |-> book_tldrs']
    /\ book_i' = book_i + 1
    /\ UNCHANGED <<book_pc, book_batches, book_runs, bookFrame>>

\* line 274: no batch is left
BookEnd ==
    /\ book_pc = "loop"
    /\ book_i >= BatchesLeft(book_batches)
    /\ book_pc' = "done"
    /\ UNCHANGED <<book_batches, book_i, book_tldrs, book_output, book_runs,
                   bookFrame>>

\* The script is started again, after it ended or was stopped (lines 262-274).
BookRerun ==
    /\ book_pc \in {"loop", "done"}
    /\ book_runs < MaxBookRuns
    /\ book_runs' = book_runs + 1
    /\ book_pc' = "loop"
    /\ book_tldrs' = LoadedTldrs(book_output)
    /\ book_i' = FirstBatch(book_tldrs')
    /\ UNCHANGED <<book_batches, book_output, bookFrame>>

NextBook == BookBatch \/ BookEnd \/ BookRerun

\* the script runs its next statement; nothing obliges anybody to restart it
SpecBook == InitBook /\ [][NextBook]_vars /\ WF_vars(BookBatch \/ BookEnd)

\* C18 (as claimed): the file never holds the same summary of one batch
\* twice: a rerun does not process again the batches whose summaries the
\* file holds.
C18_NoBatchTwice ==
    \A a, b \in 1..Len(book_output.tldrs) :
        book_output.tldrs[a] = book_output.tldrs[b] => a = b

-----------------------------------------------------------------------------
(***************************************************************************)
(* add_event_apple_calendar.py: parse_applescript (lines 86-97) and the    *)
(* __main__ block from the LLM response on (lines 120-153).  The response  *)
(* is a sequence of tokens: "fence" is three backticks, "lang" the word    *)
(* applescript in any letter case, "ws" white space, "code" any other      *)
(* text without backticks.                                                 *)
(***************************************************************************)
MaxResponse == 3

Tokens == {"fence", "lang", "ws", "code"}

RECURSIVE StripLeft(_)
StripLeft(t) ==
    IF t # <<>> /\ Head(t) = "ws" THEN StripLeft(Tail(t)) ELSE t

RECURSIVE StripRight(_)
StripRight(t) ==
    IF t # <<>> /\ t[Len(t)] = "ws"
    THEN StripRight(SubSeq(t, 1, Len(t) - 1))
    ELSE t

\* str.strip
StripTokens(t) == StripRight(StripLeft(t))

Fences(response) == {k \in 1..Len(response) : response[k] = "fence"}

Least(S) == CHOOSE k \in S : \A j \in S : k <= j

NoScript == [none |-> TRUE, tokens |-> <<>>]

\* lines 89-97: the first span between two fences, without the language
\* word after the opening fence, stripped; None when there is no such span
parse_applescript(response) ==
    IF Cardinality(Fences(response)) < 2
    THEN NoScript
    ELSE LET open == Least(Fences(response))
             close == Least(Fences(response) \ {open})
             from == IF response[open + 1] = "lang" THEN open + 2 ELSE open + 1
         IN  [none |-> FALSE,
              tokens |-> StripTokens(SubSeq(response, from, close - 1))]

\* what may be typed at the prompt of line 127
Answers ==
    {<<"y">>, <<"Y">>, <<"n">>, <<"N">>, <<>>, <<"y", "e", "s">>,
     <<"Y", "E", "S">>, <<" ", "y">>}

\* line 128: the answer that lets the script go on
ConfirmedNotNo(proceed) == Lower(proceed) # <<"n">>

Confirmed(proceed) == Lower(proceed) = <<"y">>

\* line 120: make_applescript has returned the response
InitCalendar ==
    /\ ParserIdle
    /\ FrontierIdle
    /\ RelevanceIdle
    /\ TldrIdle
    /\ BookIdle
    /\ LMIdle
    /\ DownloadIdle
    /\ cal_pc = "parse"
    /\ cal_response \in SeqsUpTo(Tokens, MaxResponse)
    /\ cal_script = NoScript
    /\ cal_asked = FALSE
    /\ cal_proceed = <<>>
    /\ cal_file = "absent"
    /\ cal_runs = 0

\* lines 121-125
CalParse ==
    /\ cal_pc = "parse"
    /\ cal_script' = parse_applescript(cal_response)
    /\ cal_pc' = IF cal_script'.none THEN "ValueError" ELSE "confirm"
    /\ UNCHANGED <<cal_response, cal_asked, cal_proceed, cal_file, cal_runs,
                   calFrame>>

\* lines 127-130
CalConfirm ==
    /\ cal_pc = "confirm"
    /\ \E answer \in Answers :
          /\ cal_proceed' = answer
          /\ cal_pc' = IF Confirmed(answer) THEN "write" ELSE "exit"
    /\ cal_asked' = TRUE
    /\ UNCHANGED <<cal_response, cal_script, cal_file, cal_runs, calFrame>>

\* lines 133-139
CalWrite ==
    /\ cal_pc = "write"
    /\ cal_file' = "written"
    /\ cal_pc' = "execute"
    /\ UNCHANGED <<cal_response, cal_script, cal_asked, cal_proceed, cal_runs,
                   calFrame>>

\* lines 141-149: osascript is run; whether it succeeds or exits with an
\* error, the script goes on to the finally clause
CalExecute ==
    /\ cal_pc = "execute"
    /\ cal_runs' = cal_runs + 1
    /\ cal_pc' = "cleanup"
    /\ UNCHANGED <<cal_response, cal_script, cal_asked, cal_proceed, cal_file,
                   calFrame>>

\* lines 150-153
CalCleanup ==
    /\ cal_pc = "cleanup"
    /\ cal_file' = "removed"
    /\ cal_pc' = "done"
    /\ UNCHANGED <<cal_response, cal_script, cal_asked, cal_proceed, cal_runs,
                   calFrame>>

NextCalendar == CalParse \/ CalConfirm \/ CalWrite \/ CalExecute \/ CalCleanup

SpecCalendar == InitCalendar /\ [][NextCalendar]_vars /\ WF_vars(NextCalendar)

\* C19: the temporary file is written and osascript is run only when a
\* script was parsed from the response and the answer to the prompt was
\* y or Y; after any other answer, and when no script was parsed, there is
\* no temporary file and nothing was run.
C19_ExecutedOnlyAfterYes ==
    (cal_file # "absent" \/ cal_runs > 0)
        => /\ ~cal_script.none
           /\ cal_asked
           /\ cal_proceed \in {<<"y">>, <<"Y">>}

\* a script was run after the answer Y
C19_Witness ==
    /\ cal_runs = 1
    /\ cal_proceed = <<"Y">>
    /\ ~cal_script.none

-----------------------------------------------------------------------------
(***************************************************************************)
(* litreview.py: the history of an LM object (lines 18-59).  A message is  *)
(* its role and its content.                                               *)
(***************************************************************************)
MaxMessages == 4

MaxClear == 5

Prompts == {"p", "q"}

Message(role, content) == [role |-> role, content |-> content]

\* lines 26-34: self.messages when the chat-completion request is made
WithPrompt(messages, prompt, add_to_history) ==
    IF add_to_history
    THEN IF Len(messages) = 0
         THEN <<Message("system", "s"), Message("user", prompt)>>
         ELSE Append(messages, Message("user", prompt))
    ELSE messages

\* lines 22-50: self.messages after get_response has returned
get_response(messages, prompt, add_to_history) ==
    IF add_to_history
    THEN WithPrompt(messages, prompt, add_to_history)
             \o <<Message("assistant", "r")>>
    ELSE messages

\* a slice list[:stop] of Python
SliceTo(list, stop) ==
    LET end == IF stop < 0
               THEN (IF Len(list) + stop < 0 THEN 0 ELSE Len(list) + stop)
               ELSE Min(stop, Len(list))
    IN  SubSeq(list, 1, end)

NoneArg == [none |-> TRUE, n |-> 0]

Arg(n) == [none |-> FALSE, n |-> n]

\* lines 52-59: self.messages after clear_history(n)
clear_history(messages, n) ==
    IF ~n.none THEN SliceTo(messages, 0 - n.n) ELSE <<>>

\* line 18
InitLM ==
    /\ ParserIdle
    /\ FrontierIdle
    /\ RelevanceIdle
    /\ TldrIdle
    /\ BookIdle
    /\ CalendarIdle
    /\ DownloadIdle
    /\ lm_pc = "chat"
    /\ lm_messages = <<>>
    /\ lm_before = <<>>
    /\ lm_n = NoneArg
    /\ lm_add = FALSE

\* lines 21-50: a call of get_response that returns
LMGetResponse ==
    /\ lm_pc \in {"chat", "raised", "cleared"}
    /\ \E prompt \in Prompts, add_to_history \in BOOLEAN :
          /\ Len(get_response(lm_messages, prompt, add_to_history))
                <= MaxMessages
          /\ lm_messages' = get_response(lm_messages, prompt, add_to_history)
          /\ lm_add' = add_to_history
    /\ lm_pc' = "chat"
    /\ UNCHANGED <<lm_before, lm_n, lmFrame>>

\* lines 21-44: a call of get_response whose chat-completion request raises
LMGetResponseRaises ==
    /\ lm_pc \in {"chat", "raised", "cleared"}
    /\ \E prompt \in Prompts, add_to_history \in BOOLEAN :
          /\ Len(WithPrompt(lm_messages, prompt, add_to_history)) <= MaxMessages
          /\ lm_messages' = WithPrompt(lm_messages, prompt, add_to_history)
          /\ lm_add' = add_to_history
    /\ lm_pc' = "raised"
    /\ UNCHANGED <<lm_before, lm_n, lmFrame>>

\* lines 52-59: a call of clear_history
LMClearHistory ==
    /\ lm_pc \in {"chat", "raised", "cleared"}
    /\ \E n \in {NoneArg} \cup {Arg(k) : k \in 0..MaxClear} :
          /\ lm_n' = n
          /\ lm_messages' = clear_history(lm_messages, n)
    /\ lm_before' = lm_messages
    /\ lm_pc' = "cleared"
    /\ UNCHANGED <<lm_add, lmFrame>>

NextLM == LMGetResponse \/ LMGetResponseRaises \/ LMClearHistory

SpecLM == InitLM /\ [][NextLM]_vars

\* C20 (as claimed): after clear_history(n) with n >= 0 the history is the
\* one before the call without its last min(n, len) messages, so n = 0
\* removes nothing; after clear_history() the history is empty.
C20_RemovesLastN ==
    lm_pc = "cleared"
        => IF lm_n.none
           THEN lm_messages = <<>>
           ELSE lm_messages
                  = SubSeq(lm_before, 1,
                           Len(lm_before) - Min(lm_n.n, Len(lm_before)))

-----------------------------------------------------------------------------
(***************************************************************************)
(* download_pdf.py: download_pdf (lines 10-31) and the download loop of    *)
(* the __main__ block (lines 42-62).  A bibcode and a file name are        *)
(* sequences of characters; the PDF the server sends is MaxChunks chunks   *)
(* long, and a file holds the chunks written to it so far.                 *)
(***************************************************************************)
MaxChunks == 2

MaxDlRuns == 2

DlBibcodes == {<<"2", "0", ".", "A">>, <<"2", "1", ".", "B">>}

\* the keys of paper_data['papers'], in the order of the file
DlPapers ==
    {<<b>> : b \in DlBibcodes}
        \cup {p \in DlBibcodes \X DlBibcodes : p[1] # p[2]}

\* lines 15-16: dots become underscores, ".pdf" is appended
Filename(bibcode) ==
    [k \in 1..Len(bibcode) |-> IF bibcode[k] = "." THEN "_" ELSE bibcode[k]]
        \o <<".", "p", "d", "f">>

Filenames == {Filename(b) : b \in DlBibcodes}

NoPdfFile == [exists |-> FALSE, chunks |-> 0]

\* line 25: open(filepath, 'wb') creates the file, or empties it
OpenedFile == [exists |-> TRUE, chunks |-> 0]

ReturnedPath(path) == [none |-> FALSE, path |-> path, raised |-> FALSE]

ReturnedNone == [none |-> TRUE, path |-> <<>>, raised |-> FALSE]

\* lines 53-56: the call raised, and the loop sets filename to None
RaisedInCall == [none |-> TRUE, path |-> <<>>, raised |-> TRUE]

\* what requests.get may do at line 22
Outcomes == {"200", "404", "raises"}

NoPdf(papers) == [k \in 1..Len(papers) |-> [bibcode |-> papers[k], pdf |-> <<>>]]

Keys(papers) == [k \in 1..Len(papers) |-> papers[k].bibcode]

\* line 58: papers[bibcode]['pdf'] = filename
WithPdf(papers, bibcode, filename) ==
    [k \in 1..Len(papers) |->
        IF papers[k].bibcode = bibcode
        THEN [papers[k] EXCEPT !.pdf = filename]
        ELSE papers[k]]

\* lines 42-50: the script starts in an empty pdf_dir
InitDownload ==
    /\ ParserIdle
    /\ FrontierIdle
    /\ RelevanceIdle
    /\ TldrIdle
    /\ BookIdle
    /\ CalendarIdle
    /\ LMIdle
    /\ dl_pc = "loop"
    /\ dl_todo \in DlPapers
    /\ dl_bibcode = <<>>
    /\ dl_files = [f \in Filenames |-> NoPdfFile]
    /\ dl_result = ReturnedNone
    /\ dl_pdf = NoPdf(dl_todo)
    /\ dl_saved = dl_pdf
    /\ dl_runs = 1

\* lines 50-52 and 15-25, 29-31, 53-56: download_pdf is called for the next
\* bibcode, up to the first chunk of a download
DlCall ==
    /\ dl_pc = "loop"
    /\ dl_todo # <<>>
    /\ dl_bibcode' = Head(dl_todo)
    /\ dl_todo' = Tail(dl_todo)
    /\ LET filepath == Filename(Head(dl_todo))
       IN  IF dl_files[filepath].exists
           THEN /\ dl_result' = ReturnedPath(filepath)
                /\ dl_pc' = "returned"
                /\ UNCHANGED dl_files
           ELSE \E outcome \in Outcomes :
                   CASE outcome = "200" ->
                           /\ dl_files' = [dl_files EXCEPT ![filepath] = OpenedFile]
                           /\ dl_pc' = "stream"
                           /\ UNCHANGED dl_result
                     [] outcome = "404" ->
                           /\ dl_result' = ReturnedNone
                           /\ dl_pc' = "returned"
                           /\ UNCHANGED dl_files
                     [] outcome = "raises" ->
                           /\ dl_result' = RaisedInCall
                           /\ dl_pc' = "returned"
                           /\ UNCHANGED dl_files
    /\ UNCHANGED <<dl_pdf, dl_saved, dl_runs, dlFrame>>

\* lines 26-27: one chunk is written
DlChunk ==
    /\ dl_pc = "stream"
    /\ dl_files[Filename(dl_bibcode)].chunks < MaxChunks
    /\ dl_files' = [dl_files EXCEPT ![Filename(dl_bibcode)].chunks = @ + 1]
    /\ UNCHANGED <<dl_pc, dl_todo, dl_bibcode, dl_result, dl_pdf, dl_saved,
                   dl_runs, dlFrame>>

\* line 26: iter_content raises before the last chunk; the with statement
\* closes the file and leaves it where it is (lines 25, 53-56)
DlInterrupted ==
    /\ dl_pc = "stream"
    /\ dl_files[Filename(dl_bibcode)].chunks < MaxChunks
    /\ dl_result' = RaisedInCall
    /\ dl_pc' = "returned"
    /\ UNCHANGED <<dl_todo, dl_bibcode, dl_files, dl_pdf, dl_saved, dl_runs,
                   dlFrame>>

\* line 28
DlComplete ==
    /\ dl_pc = "stream"
    /\ dl_files[Filename(dl_bibcode)].chunks = MaxChunks
    /\ dl_result' = ReturnedPath(Filename(dl_bibcode))
    /\ dl_pc' = "returned"
    /\ UNCHANGED <<dl_todo, dl_bibcode, dl_files, dl_pdf, dl_saved, dl_runs,
                   dlFrame>>

\* lines 57-60
DlRecord ==
    /\ dl_pc = "returned"
    /\ dl_pdf' = IF dl_result.none
                 THEN dl_pdf
                 ELSE WithPdf(dl_pdf, dl_bibcode, dl_result.path)
    /\ dl_pc' = "loop"
    /\ UNCHANGED <<dl_todo, dl_bibcode, dl_files, dl_result, dl_saved, dl_runs,
                   dlFrame>>

\* lines 61-62
DlEnd ==
    /\ dl_pc = "loop"
    /\ dl_todo = <<>>
    /\ dl_saved' = dl_pdf
    /\ dl_pc' = "done"
    /\ UNCHANGED <<dl_todo, dl_bibcode, dl_files, dl_result, dl_pdf, dl_runs,
                   dlFrame>>

\* lines 42-50: the script is started again
DlRerun ==
    /\ dl_pc = "done"
    /\ dl_runs < MaxDlRuns
    /\ dl_runs' = dl_runs + 1
    /\ dl_pdf' = dl_saved
    /\ dl_todo' = Keys(dl_saved)
    /\ dl_pc' = "loop"
    /\ UNCHANGED <<dl_bibcode, dl_files, dl_result, dl_saved, dlFrame>>

NextDownload ==
    \/ DlCall
    \/ DlChunk
    \/ DlInterrupted
    \/ DlComplete
    \/ DlRecord
    \/ DlEnd
    \/ DlRerun

SpecDownload == InitDownload /\ [][NextDownload]_vars

\* C21 (as claimed): when a call of download_pdf has returned a path, the
\* file at that path holds the complete PDF; when it has returned and no
\* file is at the path of its bibcode, it returned None.
C21_PathOnlyOnSuccess ==
    dl_pc = "returned" /\ ~dl_result.raised
        => /\ ~dl_result.none
              => /\ dl_files[dl_result.path].exists
                 /\ dl_files[dl_result.path].chunks = MaxChunks
           /\ ~dl_files[Filename(dl_bibcode)].exists => dl_result.none

-----------------------------------------------------------------------------
(***************************************************************************)
(* C24: the shape of the history under get_response.                       *)
(***************************************************************************)
\* empty, or one system message followed by user and assistant messages in
\* turn, the last one an assistant message
Alternating(messages) ==
    \/ messages = <<>>
    \/ /\ Len(messages) % 2 = 1
       /\ messages[1].role = "system"
       /\ \A k \in 2..Len(messages) :
             messages[k].role = IF k % 2 = 0 THEN "user" ELSE "assistant"

\* the step is a call of get_response, whether it returned or raised
GetResponseCalled == lm_pc' \in {"chat", "raised"}

\* C24 (as claimed): a call of get_response, returning or raising, on a
\* history that is empty or system, user, assistant, ..., assistant leaves
\* such a history, so every sequence of calls does; a call with
\* add_to_history false leaves the history as it was.
C24_HistoryAlternates ==
    [][GetResponseCalled =>
          /\ Alternating(lm_messages) => Alternating(lm_messages')
          /\ ~lm_add' => lm_messages' = lm_messages]_vars

=============================================================================
